---- MODULE Spec2Model ----
(***************************************************************************)
(* Schema migration engine of arc-db-browser (src/src/main/db/index.ts,    *)
(* sqlite.ts, postgres.ts): the per-target migration lock, the plan        *)
(* builder, the backup step, the transactional apply and the restore of a  *)
(* SQLite backup, as one state machine of IPC handlers that interleave at  *)
(* their await points.                                                     *)
(*                                                                         *)
(* Strings whose characters the code inspects (identifiers, declared       *)
(* types) are sequences of one-character strings.                          *)
(*                                                                         *)
(* Simplifications: the plan builder's consecutive reads are two steps     *)
(* (the table lists, then the column reads); a missing and an empty tables *)
(* argument are both <<>>; every backup is taken in a later second than    *)
(* the one before it; a transaction is one step (the database isolates     *)
(* it); b and c are two connections to one Postgres database, which holds  *)
(* advisory lock 314159265 for at most one session.                        *)
(*                                                                         *)
(* Spec: MaxOps invocations interleaving.  LiveSpec: the same under weak   *)
(* fairness of every handler's continuation.  PlanSpec: one plan call over *)
(* a larger set of requests and databases.  RepeatSpec: one request        *)
(* repeated, each call arriving when the one before it has returned.       *)
(* RestoreSpec: restores of good and bad requests interleaving.            *)
(* ValidationSpec: applies of complete and incomplete requests on one      *)
(* target interleaving.  SharedDbSpec: applies through the two connections *)
(* to the Postgres database.  SessionSpec: applies on a Postgres target    *)
(* beside another database session that takes the advisory lock, under     *)
(* weak fairness of the continuations that are no failure.  TypeSpec: one  *)
(* plan call over sources of one column, over a set of declared types.     *)
(* RegistrySpec: applies on the SQLite target beside connect and           *)
(* disconnect requests for it.                                             *)
(***************************************************************************)
EXTENDS Integers, Sequences, FiniteSets, TLC

(***************************************************************************)
(* Bounds of the model.                                                    *)
(***************************************************************************)
\* number of handler invocations (apply, plan, restore) in one behaviour
MaxOps == 3
\* number of failures the environment causes in one behaviour: an I/O error,
\* a statement the database rejects for a reason of its own, a failing pg_dump
MaxFaults == 1

Ops == 1..MaxOps

\* F(v), with v evaluated once
Let(v, F(_)) == CHOOSE r \in {F(x) : x \in {v}} : TRUE

(***************************************************************************)
(* Strings.                                                                *)
(***************************************************************************)
Lower == <<"a","b","c","d","e","f","g","h","i","j","k","l","m",
           "n","o","p","q","r","s","t","u","v","w","x","y","z">>
Upper == <<"A","B","C","D","E","F","G","H","I","J","K","L","M",
           "N","O","P","Q","R","S","T","U","V","W","X","Y","Z">>
Digits == {"0","1","2","3","4","5","6","7","8","9"}

\* String.prototype.toUpperCase, one character
UpperChar(ch) ==
  IF \E k \in 1..26 : Lower[k] = ch
  THEN Upper[CHOOSE k \in 1..26 : Lower[k] = ch]
  ELSE ch

ToUpperCase(s) == Let(s, LAMBDA v : [k \in 1..Len(v) |-> Let(v[k], UpperChar)])

IsSpace(ch) == ch \in {" ", "\n", "\t"}

RECURSIVE TrimLeft(_)
TrimLeft(s) == IF s # <<>> /\ IsSpace(Head(s)) THEN TrimLeft(Tail(s)) ELSE s

RECURSIVE TrimRight(_)
TrimRight(s) ==
  IF s # <<>> /\ IsSpace(s[Len(s)]) THEN TrimRight(SubSeq(s, 1, Len(s) - 1)) ELSE s

\* String.prototype.trim
Trim(s) == Let(s, LAMBDA v : Let(TrimLeft(v), TrimRight))

\* String.prototype.includes
Includes(s, sub) ==
  \E k \in 1..(Len(s) - Len(sub) + 1) : SubSeq(s, k, k + Len(sub) - 1) = sub

\* the type names the code compares with and returns
S_TEXT == <<"T","E","X","T">>
S_INT == <<"I","N","T">>
S_INTEGER == <<"I","N","T","E","G","E","R">>
S_BIGINT == <<"B","I","G","I","N","T">>
S_SMALLINT == <<"S","M","A","L","L","I","N","T">>
S_CHAR == <<"C","H","A","R">>
S_VARCHAR == <<"V","A","R","C","H","A","R">>
S_VARCHAR255 == <<"V","A","R","C","H","A","R","(","2","5","5",")">>
S_CLOB == <<"C","L","O","B">>
S_BLOB == <<"B","L","O","B">>
S_BYTEA == <<"B","Y","T","E","A">>
S_REAL == <<"R","E","A","L">>
S_FLOAT == <<"F","L","O","A","T">>
S_DOUBLE == <<"D","O","U","B","L","E">>
S_DOUBLE_PRECISION ==
  <<"D","O","U","B","L","E"," ","P","R","E","C","I","S","I","O","N">>
S_NUMERIC == <<"N","U","M","E","R","I","C">>
S_DECIMAL == <<"D","E","C","I","M","A","L">>
S_BOOL == <<"B","O","O","L">>
S_BOOLEAN == <<"B","O","O","L","E","A","N">>
S_DATE == <<"D","A","T","E">>
S_TIME == <<"T","I","M","E">>
S_TIMESTAMP == <<"T","I","M","E","S","T","A","M","P">>
S_JSON == <<"J","S","O","N">>
S_JSONB == <<"J","S","O","N","B">>
S_UUID == <<"U","U","I","D">>

\* normalizeType: (t || 'TEXT').toUpperCase().trim()
normalizeType(t) == Let(ToUpperCase(IF t = <<>> THEN S_TEXT ELSE t), Trim)

mapSqlite(n) ==
  IF Includes(n, S_INT) THEN S_INTEGER
  ELSE IF Includes(n, S_CHAR) \/ Includes(n, S_TEXT) \/ Includes(n, S_CLOB) THEN S_TEXT
  ELSE IF Includes(n, S_BLOB) \/ n = S_BYTEA THEN S_BLOB
  ELSE IF \/ Includes(n, S_REAL) \/ Includes(n, S_FLOAT) \/ Includes(n, S_DOUBLE)
          \/ Includes(n, S_NUMERIC) \/ Includes(n, S_DECIMAL) THEN S_REAL
  ELSE IF Includes(n, S_BOOL) THEN S_INTEGER
  ELSE IF Includes(n, S_DATE) \/ Includes(n, S_TIME) THEN S_TEXT
  ELSE IF n = S_JSON \/ n = S_JSONB THEN S_TEXT
  ELSE IF n = S_UUID THEN S_TEXT
  ELSE S_TEXT

mapPostgres(n) ==
  IF n = S_INTEGER \/ n = S_INT \/ Includes(n, S_INT) THEN S_INTEGER
  ELSE IF n = S_BIGINT THEN S_BIGINT
  ELSE IF n = S_SMALLINT THEN S_SMALLINT
  ELSE IF n = S_TEXT \/ Includes(n, S_CLOB) THEN S_TEXT
  ELSE IF Includes(n, S_VARCHAR) \/ Includes(n, S_CHAR) THEN S_VARCHAR255
  ELSE IF n = S_BLOB \/ n = S_BYTEA THEN S_BYTEA
  ELSE IF n = S_REAL \/ n = S_FLOAT THEN S_REAL
  ELSE IF n = S_DOUBLE \/ n = S_DOUBLE_PRECISION THEN S_DOUBLE_PRECISION
  ELSE IF Includes(n, S_NUMERIC) \/ Includes(n, S_DECIMAL) THEN S_NUMERIC
  ELSE IF Includes(n, S_BOOL) THEN S_BOOLEAN
  ELSE IF n = S_DATE THEN S_DATE
  ELSE IF Includes(n, S_TIMESTAMP) THEN S_TIMESTAMP
  ELSE IF n = S_TIME THEN S_TIME
  ELSE IF n = S_JSON \/ n = S_JSONB THEN S_JSONB
  ELSE IF n = S_UUID THEN S_UUID
  ELSE S_TEXT

\* mapColumnTypeToTarget(sourceType, targetType)
mapColumnTypeToTarget(sourceType, targetType) ==
  Let(normalizeType(sourceType),
      LAMBDA n : IF targetType = "sqlite" THEN mapSqlite(n) ELSE mapPostgres(n))

\* quoteIdent: wrap in double quotes, every embedded quote doubled
RECURSIVE DoubleQuotes(_)
DoubleQuotes(s) ==
  IF s = <<>> THEN <<>>
  ELSE (IF Head(s) = "\"" THEN <<"\"", "\"">> ELSE <<Head(s)>>) \o DoubleQuotes(Tail(s))

quoteIdent(name) == <<"\"">> \o DoubleQuotes(name) \o <<"\"">>

(***************************************************************************)
(* Databases.  A database is a set of relations [name, type, cols], names  *)
(* unique; cols is the sequence of [name, type] in ordinal position.       *)
(***************************************************************************)

Col(n, t) == [name |-> n, type |-> t]
Rel(n, k, cs) == [name |-> n, type |-> k, cols |-> cs]

Range(f) == {f[k] : k \in DOMAIN f}

\* ASCII order of the characters that occur in identifiers
Ascii == <<" ", "\"", "-", "0", "1", "2", "3", "4", "5", "6", "7", "8", "9", ";",
           "A","B","C","D","E","F","G","H","I","J","K","L","M",
           "N","O","P","Q","R","S","T","U","V","W","X","Y","Z", "_",
           "a","b","c","d","e","f","g","h","i","j","k","l","m",
           "n","o","p","q","r","s","t","u","v","w","x","y","z">>

Code(ch) ==
  Let(ch, LAMBDA c : IF \E k \in DOMAIN Ascii : Ascii[k] = c
                     THEN CHOOSE k \in DOMAIN Ascii : Ascii[k] = c
                     ELSE 0)

RECURSIVE StrLess(_, _)
StrLess(a, b) ==
  Let(<<a, b>>, LAMBDA p :
      IF p[2] = <<>> THEN FALSE
      ELSE IF p[1] = <<>> THEN TRUE
      ELSE IF Head(p[1]) = Head(p[2]) THEN StrLess(Tail(p[1]), Tail(p[2]))
      ELSE Code(Head(p[1])) < Code(Head(p[2])))

\* the relations of db as [name, type], ORDER BY name
RECURSIVE SortedInfos(_)
SortedInfos(rels) ==
  IF rels = {} THEN <<>>
  ELSE Let(CHOOSE r \in rels : \A o \in rels : o = r \/ StrLess(r.name, o.name),
           LAMBDA m : <<[name |-> m.name, type |-> m.type]>> \o SortedInfos(rels \ {m}))

\* SQLDriver.getTables of a connected driver
getTables(db) == Let(db, SortedInfos)

\* table.replace(/[^a-zA-Z0-9_]/g, '')
IsWordChar(ch) == ch \in Range(Lower) \cup Range(Upper) \cup Digits \cup {"_"}

safeName(table) == SelectSeq(table, IsWordChar)

\* SQLite resolves a relation name without regard to ASCII case
SqliteFind(db, n) == Let(ToUpperCase(n), LAMBDA u : {r \in db : ToUpperCase(r.name) = u})

ColsOf(rels) == IF rels = {} THEN <<>> ELSE (CHOOSE r \in rels : TRUE).cols

\* SQLiteDriver.getTableSchema: PRAGMA table_info of the sanitized name
sqliteGetTableSchema(db, table) == ColsOf(SqliteFind(db, safeName(table)))

\* PostgresDriver.getTableSchema: information_schema.columns WHERE table_name = $1
postgresGetTableSchema(db, table) == ColsOf({r \in db : r.name = table})

getTableSchema(kind, db, table) ==
  IF kind = "sqlite" THEN sqliteGetTableSchema(db, table)
  ELSE postgresGetTableSchema(db, table)

(***************************************************************************)
(* SQL statements.  The plan's sql text is kept as the sequence of the     *)
(* statements it joins: CREATE TABLE IF NOT EXISTS name (cols), ALTER      *)
(* TABLE name ADD COLUMN col, DROP TABLE IF EXISTS name.  Identifiers are  *)
(* the unquoted names: the database un-doubles what quoteIdent doubled.    *)
(***************************************************************************)
SetStmt == [op |-> "SET", table |-> <<>>, cols |-> <<>>]
CreateStmt(t, cs) == [op |-> "CREATE", table |-> t, cols |-> cs]
AddStmt(t, c) == [op |-> "ADD", table |-> t, cols |-> <<c>>]
DropStmt(t) == [op |-> "DROP", table |-> t, cols |-> <<>>]

\* information_schema.columns.data_type of a column declared with the type ty
PgDataType(ty) ==
  CASE ty = S_INTEGER -> <<"i","n","t","e","g","e","r">>
    [] ty = S_BIGINT -> <<"b","i","g","i","n","t">>
    [] ty = S_SMALLINT -> <<"s","m","a","l","l","i","n","t">>
    [] ty = S_TEXT -> <<"t","e","x","t">>
    [] ty = S_VARCHAR255 ->
         <<"c","h","a","r","a","c","t","e","r"," ","v","a","r","y","i","n","g">>
    [] ty = S_BYTEA -> <<"b","y","t","e","a">>
    [] ty = S_REAL -> <<"r","e","a","l">>
    [] ty = S_DOUBLE_PRECISION ->
         <<"d","o","u","b","l","e"," ","p","r","e","c","i","s","i","o","n">>
    [] ty = S_NUMERIC -> <<"n","u","m","e","r","i","c">>
    [] ty = S_BOOLEAN -> <<"b","o","o","l","e","a","n">>
    [] ty = S_DATE -> <<"d","a","t","e">>
    [] ty = S_TIMESTAMP ->
         <<"t","i","m","e","s","t","a","m","p"," ","w","i","t","h","o","u","t",
           " ","t","i","m","e"," ","z","o","n","e">>
    [] ty = S_TIME ->
         <<"t","i","m","e"," ","w","i","t","h","o","u","t",
           " ","t","i","m","e"," ","z","o","n","e">>
    [] ty = S_JSONB -> <<"j","s","o","n","b">>
    [] ty = S_UUID -> <<"u","u","i","d">>
    [] OTHER -> ty

\* the name as the dialect compares it: SQLite folds ASCII case, Postgres
\* compares quoted identifiers exactly
Fold(kind, n) == IF kind = "sqlite" THEN ToUpperCase(n) ELSE n

Find(kind, db, n) == Let(Fold(kind, n), LAMBDA u : {r \in db : Fold(kind, r.name) = u})

\* the column as the database stores it
Stored(kind, c) == IF kind = "sqlite" THEN c ELSE Col(c.name, PgDataType(c.type))

DistinctCols(kind, cs) ==
  \A i, j \in DOMAIN cs : i # j => Fold(kind, cs[i].name) # Fold(kind, cs[j].name)

\* whether the database rejects the statement
StmtFails(kind, db, st) ==
  LET found == Find(kind, db, st.table) IN
  CASE st.op = "CREATE" ->
         \* SQLite has no table without columns: "CREATE TABLE t ()" does
         \* not parse; Postgres accepts it
         \/ (kind = "sqlite" /\ st.cols = <<>>)
         \/ (found = {} /\ ~DistinctCols(kind, st.cols))
    [] st.op = "ADD" ->
         \/ found = {}
         \/ \E r \in found :
              \/ r.type # "table"
              \/ \E k \in DOMAIN r.cols :
                   Fold(kind, r.cols[k].name) = Fold(kind, st.cols[1].name)
    [] st.op = "DROP" -> \E r \in found : r.type # "table"
    [] OTHER -> FALSE

\* the database after a statement it accepts
StmtApply(kind, db, st) ==
  LET found == Find(kind, db, st.table) IN
  CASE st.op = "CREATE" ->
         IF found # {} THEN db
         ELSE db \cup {Rel(st.table, "table",
                           [k \in DOMAIN st.cols |-> Stored(kind, st.cols[k])])}
    [] st.op = "ADD" ->
         (db \ found) \cup
           {Rel(r.name, r.type, Append(r.cols, Stored(kind, st.cols[1]))) : r \in found}
    [] st.op = "DROP" -> db \ found
    [] OTHER -> db

\* Runs stmts in order inside the open transaction.  failAt is the position at
\* which the environment makes a statement fail (a lock timeout, a full disk),
\* 0 for none.  The result is the database as the transaction sees it when it
\* stops, and the position of the statement that failed (0: none failed).
RECURSIVE RunStatements(_, _, _, _, _)
RunStatements(kind, db, stmts, k, failAt) ==
  IF k > Len(stmts) THEN [db |-> db, failed |-> 0]
  ELSE IF k = failAt \/ StmtFails(kind, db, stmts[k]) THEN [db |-> db, failed |-> k]
  ELSE RunStatements(kind, StmtApply(kind, db, stmts[k]), stmts, k + 1, failAt)

\* a catch block without ROLLBACK
RollbackNothing(before, during) == during

\* the catch block's ROLLBACK: the database returns to its state at BEGIN
Rollback(before, during) == before

\* SQLiteDriver.executeTransaction on a connected driver.  saveFails: the
\* write of the file after COMMIT raises.  Result: the in-memory database,
\* whether the call returned (ok) or raised, whether the file was written,
\* and the position of the failed statement.
sqliteExecuteTransaction(db, stmts, failAt, saveFails) ==
  IF stmts = <<>> THEN [db |-> db, ok |-> TRUE, saved |-> FALSE, failed |-> 0]
  ELSE LET r == RunStatements("sqlite", db, stmts, 1, failAt) IN
       IF r.failed # 0
       THEN [db |-> Rollback(db, r.db), ok |-> FALSE, saved |-> FALSE, failed |-> r.failed]
       ELSE IF saveFails
       THEN [db |-> r.db, ok |-> FALSE, saved |-> FALSE, failed |-> 0]
       ELSE [db |-> r.db, ok |-> TRUE, saved |-> TRUE, failed |-> 0]

\* PostgresDriver.executeTransaction on a connected driver, against the
\* server's database
postgresExecuteTransaction(db, stmts, failAt) ==
  IF stmts = <<>> THEN [db |-> db, ok |-> TRUE, failed |-> 0]
  ELSE LET r == RunStatements("postgres", db, stmts, 1, failAt) IN
       IF r.failed # 0
       THEN [db |-> Rollback(db, r.db), ok |-> FALSE, failed |-> r.failed]
       ELSE [db |-> r.db, ok |-> TRUE, failed |-> 0]

(***************************************************************************)
(* The plan builder.                                                       *)
(***************************************************************************)
NoSql == <<>>
\* the text '-- No changes needed'
Sentinel == <<[op |-> "NOOP", table |-> <<>>, cols |-> <<>>]>>

Step(t, ok, sql, msg, warns) ==
  [table |-> t, success |-> ok, sql |-> sql, message |-> msg, warnings |-> warns]

Names(infos) == {infos[k].name : k \in DOMAIN infos}

HasCol(cols, n) == \E k \in DOMAIN cols : cols[k].name = n

\* Map.get(name) of new Map(schema.map(c => [c.name, c])): the last entry wins
ColNamed(cols, n) ==
  cols[CHOOSE k \in DOMAIN cols :
         cols[k].name = n /\ \A j \in DOMAIN cols : cols[j].name = n => j <= k]

\* the column as CREATE TABLE and ADD COLUMN declare it
Declared(c, targetType) ==
  Col(c.name, mapColumnTypeToTarget(IF c.type = <<>> THEN S_TEXT ELSE c.type, targetType))

\* a builder that rebuilds the target table from the source's columns
AddStmtsRebuild(tableName, srcSchema, tgtSchema, targetType) ==
  <<DropStmt(tableName),
    CreateStmt(tableName, [k \in DOMAIN srcSchema |-> Declared(srcSchema[k], targetType)])>>

\* the ALTER TABLE ... ADD COLUMN statements, one per source column with no
\* target column of that name
RECURSIVE AddStmts(_, _, _, _)
AddStmts(tableName, srcSchema, tgtSchema, targetType) ==
  IF srcSchema = <<>> THEN <<>>
  ELSE (IF HasCol(tgtSchema, Head(srcSchema).name) THEN <<>>
        ELSE <<AddStmt(tableName, Declared(Head(srcSchema), targetType))>>)
       \o AddStmts(tableName, Tail(srcSchema), tgtSchema, targetType)

MismatchWarning(t, c) == [kind |-> "Type mismatch", table |-> t, col |-> c]
ExtraWarning(t, c) == [kind |-> "Target has extra column", table |-> t, col |-> c]

RECURSIVE MismatchWarnings(_, _, _)
MismatchWarnings(tableName, srcSchema, tgtSchema) ==
  IF srcSchema = <<>> THEN <<>>
  ELSE LET col == Head(srcSchema) IN
       (IF HasCol(tgtSchema, col.name)
           /\ Let(normalizeType(col.type), LAMBDA srcType :
               Let(normalizeType(ColNamed(tgtSchema, col.name).type), LAMBDA tgtType :
                   srcType # <<>> /\ tgtType # <<>> /\ srcType # tgtType))
        THEN <<MismatchWarning(tableName, col.name)>>
        ELSE <<>>)
       \o MismatchWarnings(tableName, Tail(srcSchema), tgtSchema)

RECURSIVE ExtraWarnings(_, _, _)
ExtraWarnings(tableName, tgtSchema, srcSchema) ==
  IF tgtSchema = <<>> THEN <<>>
  ELSE (IF HasCol(srcSchema, Head(tgtSchema).name) THEN <<>>
        ELSE <<ExtraWarning(tableName, Head(tgtSchema).name)>>)
       \o ExtraWarnings(tableName, Tail(tgtSchema), srcSchema)

\* a failed step that carries a statement all the same
NotFoundStepWithSql(tableName) ==
  Step(tableName, FALSE, <<CreateStmt(tableName, <<Col(tableName, S_TEXT)>>)>>,
       "Source table not found; skipping.", <<>>)

\* the step for a requested name the source's list does not hold
NotFoundStep(tableName) ==
  Step(tableName, FALSE, NoSql, "Source table not found; skipping.", <<>>)

\* the body of the loop over req.tables
TableStep(tableName, srcKind, srcDb, srcInfos, tgtKind, tgtDb, tgtInfos) ==
  IF tableName \notin Names(srcInfos)
  THEN NotFoundStep(tableName)
  ELSE Let(getTableSchema(srcKind, srcDb, tableName), LAMBDA srcSchema :
       IF tableName \notin Names(tgtInfos)
       THEN Step(tableName, TRUE,
                 <<CreateStmt(tableName,
                              [k \in DOMAIN srcSchema |-> Declared(srcSchema[k], tgtKind)])>>,
                 "Will create table", <<>>)
       ELSE Let(getTableSchema(tgtKind, tgtDb, tableName), LAMBDA tgtSchema :
            Let(AddStmts(tableName, srcSchema, tgtSchema, tgtKind), LAMBDA stmts :
            Let(MismatchWarnings(tableName, srcSchema, tgtSchema)
                \o ExtraWarnings(tableName, tgtSchema, srcSchema), LAMBDA warnings :
               IF stmts = <<>>
               THEN Step(tableName, TRUE, Sentinel, "Table schema is compatible", warnings)
               ELSE Step(tableName, TRUE, stmts, "Will add missing columns", warnings)))))

\* a full-sync loop that does not look at the relation's type
DropWantedAnyKind(targetTable, srcInfos) == targetTable.name \notin Names(srcInfos)

\* whether the full-sync loop emits a drop step for this relation of the target
DropWanted(targetTable, srcInfos) ==
  targetTable.type = "table" /\ targetTable.name \notin Names(srcInfos)

RECURSIVE DropSteps(_, _)
DropSteps(tgtInfos, srcInfos) ==
  IF tgtInfos = <<>> THEN <<>>
  ELSE (IF DropWanted(Head(tgtInfos), srcInfos)
        THEN <<Step(Head(tgtInfos).name, TRUE, <<DropStmt(Head(tgtInfos).name)>>,
                    "Will drop target table that no longer exists in the source", <<>>)>>
        ELSE <<>>)
       \o DropSteps(Tail(tgtInfos), srcInfos)

\* req.options?.fullySync
FullySyncSet(options) == options.fullySync = "true"

\* a builder that runs the full-sync loop before the loop over req.tables
buildSchemaMigrationPlanDropsFirst(tables, options, srcKind, srcDb, srcInfos, tgtKind, tgtDb, tgtInfos) ==
  (IF FullySyncSet(options) THEN DropSteps(tgtInfos, srcInfos) ELSE <<>>)
  \o [k \in DOMAIN tables |->
        TableStep(tables[k], srcKind, srcDb, srcInfos, tgtKind, tgtDb, tgtInfos)]

\* buildSchemaMigrationPlan, given what its reads return: the two table lists
\* and the databases the column reads see
buildSchemaMigrationPlan(tables, options, srcKind, srcDb, srcInfos, tgtKind, tgtDb, tgtInfos) ==
  [k \in DOMAIN tables |->
     TableStep(tables[k], srcKind, srcDb, srcInfos, tgtKind, tgtDb, tgtInfos)]
  \o (IF FullySyncSet(options) THEN DropSteps(tgtInfos, srcInfos) ELSE <<>>)

\* plan.filter(r => r.success && r.sql && r.sql.trim() && r.sql !== '-- No changes needed')
IsActionable(r) == r.success /\ r.sql # NoSql /\ r.sql # Sentinel

\* an apply that takes no step of a plan in which a step has failed
ActionableUnlessFailed(plan) ==
  IF \E k \in DOMAIN plan : ~plan[k].success THEN <<>> ELSE SelectSeq(plan, IsActionable)

Actionable(plan) == SelectSeq(plan, IsActionable)

\* the statements of the actionable steps, each step's text split at its
\* statement terminators
RECURSIVE Flatten(_)
Flatten(steps) ==
  IF steps = <<>> THEN <<>> ELSE Head(steps).sql \o Flatten(Tail(steps))

\* the plan as apply returns it after the transaction succeeded
finalResults(plan) ==
  [k \in DOMAIN plan |->
     [plan[k] EXCEPT !.message =
        IF plan[k].sql # NoSql /\ plan[k].sql # Sentinel THEN "Applied" ELSE @]]

(***************************************************************************)
(* Paths.  A path is a sequence of segments, a segment a tuple of strings. *)
(***************************************************************************)
\* getBackupsDir(): path.join(app.getPath('userData'), 'backups')
BackupsDir == << <<"userData">>, <<"backups">> >>

DotDot == <<"..">>

\* path.resolve: ".." segments removed with the segment before them
RECURSIVE Resolve(_, _)
Resolve(done, rest) ==
  IF rest = <<>> THEN done
  ELSE IF Head(rest) = DotDot
       THEN Resolve(IF done = <<>> THEN done ELSE SubSeq(done, 1, Len(done) - 1), Tail(rest))
       ELSE Resolve(Append(done, Head(rest)), Tail(rest))

IsPrefix(a, b) == Len(a) <= Len(b) /\ SubSeq(b, 1, Len(a)) = a

\* a resolveInside that accepts every path
InsideDirUnchecked(dir, filePath) == TRUE

\* resolveInside accepts the path: inside the directory, or the directory itself
InsideDir(dir, filePath) ==
  LET resolvedFile == Resolve(<<>>, filePath) IN
  (IsPrefix(dir, resolvedFile) /\ Len(resolvedFile) > Len(dir)) \/ resolvedFile = dir

StampStr == <<"0", "1", "2", "3", "4", "5", "6", "7", "8", "9">>

\* path.join(backupsDir, `sqlite-${id}-${nowStamp()}.db`), and the .sql of a dump
BackupFile(kind, id, stamp) ==
  Append(BackupsDir,
         <<kind, id, StampStr[stamp + 1], IF kind = "sqlite" THEN "db" ELSE "sql">>)

\* the file paths of the SQLite connections
PathOf(id) == << <<"data">>, <<id, "db">> >>

(***************************************************************************)
(* State.                                                                  *)
(***************************************************************************)
VARIABLES
  connections,    \* the registry: connection id -> driver instance, 0 for none
  drivers,        \* driver instance -> [kind, open, db, path]
  fsys,           \* the files: a set of [path, db]
  pgServer,       \* the database of the Postgres server
  pgAdvisory,     \* the driver instance whose session holds advisory lock
                  \* 314159265 of that database, 0 for none
  now,            \* the clock, in seconds
  faults,         \* the failures the environment has caused so far
  migrationLocks, \* lock key -> the invocation whose `current` promise is stored, 0 for no entry
  released,       \* invocation -> its gate promise is resolved
  ops,            \* the handler invocations
  submitOrder,    \* lock key -> the invocations in the order they called withMigrationLock
  startOrder      \* lock key -> the invocations in the order their fn began

vars == <<connections, drivers, fsys, pgServer, pgAdvisory, now, faults, migrationLocks, released,
          ops, submitOrder, startOrder>>

\* the environment makes the step fail / the step runs without a failure
Fault == faults < MaxFaults /\ faults' = faults + 1
NoFault == faults' = faults

\* the connection ids of the registry, and the ids a request may name
\* s, a: SQLite files; b, c: two connections to one Postgres database
ConnIds == {"s", "a", "b", "c"}
LockKeys == {"a", "b", "c", "x"}

DriverIds == 1..(4 + MaxOps)

FreeDriver == [kind |-> "free", open |-> FALSE, db |-> {}, path |-> <<>>]
SqliteDriver(path, db) == [kind |-> "sqlite", open |-> TRUE, db |-> db, path |-> path]
PostgresDriver == [kind |-> "postgres", open |-> TRUE, db |-> {}, path |-> <<>>]

\* identifiers and declared types of the scenarios
nT == <<"t">>
nU == <<"u">>
nW == <<"w">>
cId == <<"i", "d">>
cNm == <<"n", "m">>
cX == <<"x">>
tyInt == <<"I", "N", "T">>
tyBigint == <<"B", "I", "G", "I", "N", "T">>
tyText == <<"t", "e", "x", "t">>
tyPgInteger == <<"i", "n", "t", "e", "g", "e", "r">>

\* the source: a table t and a view u
SrcDb == {Rel(nT, "table", <<Col(cId, tyInt), Col(cNm, tyText)>>),
          Rel(nU, "view", <<Col(cId, tyInt)>>)}

\* a target that lacks a column of t, has one of its own, and has a table w
\* the source does not have
OldDb == {Rel(nT, "table", <<Col(cId, tyBigint), Col(cX, tyText)>>),
          Rel(nW, "table", <<Col(cX, tyText)>>)}

\* the Postgres target: t without nm, and a view of its own
PgDb == {Rel(nT, "table", <<Col(cId, tyPgInteger)>>),
         Rel(nW, "view", <<Col(cId, tyPgInteger)>>)}

\* an earlier backup of a
BackupDb == {Rel(nT, "table", <<Col(cId, tyBigint)>>)}

File(path, db) == [path |-> path, db |-> db]

FileExists(fs, path) == \E f \in fs : f.path = path

FileDb(fs, path) == (CHOOSE f \in fs : f.path = path).db

WriteFile(fs, path, db) == {f \in fs : f.path # path} \cup {File(path, db)}

NoBackup == [backupPath |-> <<>>, error |-> ""]
NoResult == [success |-> FALSE, results |-> <<>>, backupPath |-> <<>>, error |-> ""]
NoOptions == [fullySync |-> "undefined", createBackup |-> "undefined",
              createSqliteBackup |-> "undefined"]

\* An invocation: its request (source, target, tables, options, path), its
\* place in the handler (pc), the locals of the handler (prev, the drivers it
\* looked up, the table lists, plan, backup), what it returned (result), and
\* a record of what it did: bk, what the backup step came to ("none": not
\* run, "skipped": not requested, "ok", "error": it returned an error,
\* "raised"); tx, what
\* the transaction came to; failed, the position of the statement that failed.
NoOp ==
  [kind |-> "none", pc |-> "idle", source |-> "", target |-> "", tables |-> <<>>,
   options |-> NoOptions, path |-> <<>>, prev |-> 0, srcDrv |-> 0, tgtDrv |-> 0,
   bkDrv |-> 0, exDrv |-> 0,
   srcInfos |-> <<>>, tgtInfos |-> <<>>, plan |-> <<>>, backup |-> NoBackup,
   bk |-> "none", tx |-> "none", failed |-> 0, result |-> NoResult]

\* the state once the connections are made: sdb in the file of s, adb in the
\* file of a, pg on the Postgres server, and an earlier backup of a
Setup(sdb, adb, pg) ==
  /\ connections = [c \in ConnIds |-> CASE c = "s" -> 1 [] c = "a" -> 2 [] c = "b" -> 3
                                                    [] OTHER -> 4]
  /\ drivers = [d \in DriverIds |->
                  CASE d = 1 -> SqliteDriver(PathOf("s"), sdb)
                    [] d = 2 -> SqliteDriver(PathOf("a"), adb)
                    [] d \in {3, 4} -> PostgresDriver
                    [] OTHER -> FreeDriver]
  /\ fsys = {File(PathOf("s"), sdb), File(PathOf("a"), adb),
             File(BackupFile("sqlite", "a", 0), BackupDb)}
  /\ pgServer = pg
  /\ pgAdvisory = 0
  /\ now = 0
  /\ faults = 0
  /\ migrationLocks = [k \in LockKeys |-> 0]
  /\ released = [i \in Ops |-> FALSE]
  /\ ops = [i \in Ops |-> NoOp]
  /\ submitOrder = [k \in LockKeys |-> <<>>]
  /\ startOrder = [k \in LockKeys |-> <<>>]

Init == Setup(SrcDb, OldDb, PgDb)

(***************************************************************************)
(* The migration lock.                                                     *)
(***************************************************************************)
\* one lock for every target
LockKeyGlobal(id) == "x"

\* the key apply and restore pass to withMigrationLock: the connection id
LockKey(id) == id

\* a lock that never reads the stored promise
PrevOfNone(key) == 0

\* migrationLocks.get(key) ?? Promise.resolve(): 0 is the resolved promise
PrevOf(key) == migrationLocks[key]

\* whether invocation i's `current` promise, prev.then(() => gate), is resolved
RECURSIVE CurrentResolved(_)
CurrentResolved(i) ==
  released[i] /\ (IF ops[i].prev = 0 THEN TRUE ELSE CurrentResolved(ops[i].prev))

\* an `await prev` that resumes whatever the state of the promise
PrevResolvedAlways(i) == TRUE

\* `await prev` can resume
PrevResolved(i) == IF ops[i].prev = 0 THEN TRUE ELSE CurrentResolved(ops[i].prev)

\* a finally block that leaves the gate closed
ReleaseGateNever(i) == released

\* release?.()
ReleaseGate(i) == [released EXCEPT ![i] = TRUE]

\* a finally block that leaves the entry in the map
DeleteNever(i, key) == migrationLocks

\* a finally block that deletes the entry whoever stored it
DeleteAlways(i, key) == [migrationLocks EXCEPT ![key] = 0]

\* if (migrationLocks.get(key) === current) migrationLocks.delete(key)
DeleteIfCurrent(i, key) ==
  IF migrationLocks[key] = i THEN [migrationLocks EXCEPT ![key] = 0] ELSE migrationLocks

\* the invocations are numbered in the order the requests arrive
NextToArrive(i) == ops[i].kind = "none" /\ \A j \in Ops : j < i => ops[j].kind # "none"

\* withMigrationLock up to `await prev`: invocation i, with its request in op,
\* chains itself behind the stored promise
Enqueue(i, key, op) ==
  /\ ops' = [ops EXCEPT ![i] = [op EXCEPT !.pc = "waiting", !.prev = PrevOf(key)]]
  /\ migrationLocks' = [migrationLocks EXCEPT ![key] = i]
  /\ submitOrder' = [submitOrder EXCEPT ![key] = Append(@, i)]

\* What is left of an invocation once withMigrationLock has settled: the
\* handler's locals are gone; the model keeps the request, and of the
\* response whether it reports success.
Settled(op) ==
  [NoOp EXCEPT !.kind = op.kind, !.pc = "done", !.source = op.source, !.target = op.target,
               !.tables = op.tables, !.options = op.options, !.prev = op.prev,
               !.result = [NoResult EXCEPT !.success = op.result.success]]

\* the finally block of withMigrationLock
Finally(i) ==
  /\ ops[i].pc = "finally"
  /\ released' = ReleaseGate(i)
  /\ migrationLocks' = DeleteIfCurrent(i, LockKey(ops[i].target))
  /\ ops' = [ops EXCEPT ![i] = Settled(ops[i])]
  /\ UNCHANGED <<connections, drivers, fsys, pgServer, pgAdvisory, now, faults, submitOrder, startOrder>>

(***************************************************************************)
(* Helpers of the handlers.                                                *)
(***************************************************************************)
Failure(msg) == [NoResult EXCEPT !.error = msg]
Success(plan, backupPath) ==
  [success |-> TRUE, results |-> plan, backupPath |-> backupPath, error |-> ""]

\* connections.get(connectionId) finds a driver
Registered(id) == id \in ConnIds /\ connections[id] # 0

\* the database a driver instance reads and writes
DbOf(d) == IF drivers[d].kind = "postgres" THEN pgServer ELSE drivers[d].db

\* the table structures of the connection id, as its registered driver sees them
TargetView(id) == IF Registered(id) THEN DbOf(connections[id]) ELSE {}

\* options?.createBackup ?? options?.createSqliteBackup
Requested(options) ==
  IF options.createBackup # "undefined"
  THEN options.createBackup = "true"
  ELSE options.createSqliteBackup = "true"

SetOp(i, op) == ops' = [ops EXCEPT ![i] = op]

\* the handler returns `result` from inside fn: the finally block is next (the
\* locals of the invocation are dead from here on)
Return(op, result) ==
  [op EXCEPT !.pc = "finally", !.result = result, !.srcDrv = 0, !.tgtDrv = 0,
             !.bkDrv = 0, !.exDrv = 0, !.srcInfos = <<>>, !.tgtInfos = <<>>]

\* a handler that holds no lock returns `result`
ReturnUnlocked(op, result) ==
  [op EXCEPT !.pc = "done", !.result = result, !.srcDrv = 0, !.tgtDrv = 0,
             !.bkDrv = 0, !.exDrv = 0, !.srcInfos = <<>>, !.tgtInfos = <<>>]

\* where an invocation continues when it leaves the plan builder or fn
Leave(op, result) ==
  IF op.kind = "plan" THEN ReturnUnlocked(op, result) ELSE Return(op, result)

(***************************************************************************)
(* SCHEMA_MIGRATION_APPLY.                                                 *)
(***************************************************************************)
\* The handler is invoked: the check of targetConnectionId, then
\* withMigrationLock up to `await prev`.  A missing tables argument and an
\* empty one take the same branch and are both the empty sequence here.
ApplySubmit(i, req) ==
  /\ NextToArrive(i)
  /\ LET op == [NoOp EXCEPT !.kind = "apply", !.source = req.source,
                            !.target = req.target, !.tables = req.tables,
                            !.options = req.options]
     IN IF req.target = ""
        THEN /\ SetOp(i, ReturnUnlocked(op, Failure("targetConnectionId is required")))
             /\ UNCHANGED <<migrationLocks, submitOrder>>
        ELSE Enqueue(i, LockKey(req.target), op)
  /\ UNCHANGED <<connections, drivers, fsys, pgServer, pgAdvisory, now, faults, released, startOrder>>

\* buildSchemaMigrationPlan up to its first await: the two getSQLDriver calls
PlanBegin(op) ==
  IF ~Registered(op.source) \/ ~Registered(op.target)
  THEN Leave(op, Failure("Connection not found"))
  ELSE [op EXCEPT !.pc = "getTables", !.srcDrv = connections[op.source],
                  !.tgtDrv = connections[op.target]]

\* `await prev` resumes and fn runs to its first await: the checks of
\* sourceConnectionId and tables, then the plan builder's driver lookups
ApplyStart(i) ==
  /\ ops[i].kind = "apply"
  /\ ops[i].pc = "waiting"
  /\ PrevResolved(i)
  /\ startOrder' = [startOrder EXCEPT ![LockKey(ops[i].target)] = Append(@, i)]
  /\ LET op == ops[i]
     IN SetOp(i, IF op.source = ""
                 THEN Return(op, Failure("sourceConnectionId is required"))
                 ELSE IF op.tables = <<>>
                 THEN Return(op, Failure("tables must be a non-empty array"))
                 ELSE PlanBegin(op))
  /\ UNCHANGED <<connections, drivers, fsys, pgServer, pgAdvisory, now, faults, migrationLocks, released,
                 submitOrder>>

\* source.getTables() and target.getTables()
PlanTables(i) ==
  /\ ops[i].pc = "getTables"
  /\ LET op == ops[i]
     IN SetOp(i, IF ~drivers[op.srcDrv].open \/ ~drivers[op.tgtDrv].open
                 THEN Leave(op, Failure("Not connected"))
                 ELSE [op EXCEPT !.pc = "getSchemas",
                                 !.srcInfos = getTables(DbOf(op.srcDrv)),
                                 !.tgtInfos = getTables(DbOf(op.tgtDrv))])
  /\ UNCHANGED <<connections, drivers, fsys, pgServer, pgAdvisory, now, faults, migrationLocks, released,
                 submitOrder, startOrder>>

\* the getTableSchema calls of the loop raise when the driver has been
\* disconnected meanwhile
SchemaReadThrows(op) ==
  \/ /\ ~drivers[op.srcDrv].open
     /\ \E k \in DOMAIN op.tables : op.tables[k] \in Names(op.srcInfos)
  \/ /\ ~drivers[op.tgtDrv].open
     /\ \E k \in DOMAIN op.tables :
          op.tables[k] \in Names(op.srcInfos) /\ op.tables[k] \in Names(op.tgtInfos)

\* the plan the builder returns to invocation op
PlanOf(op) ==
  buildSchemaMigrationPlan(op.tables, op.options,
                           drivers[op.srcDrv].kind, DbOf(op.srcDrv), op.srcInfos,
                           drivers[op.tgtDrv].kind, DbOf(op.tgtDrv), op.tgtInfos)

\* an apply that goes on to the backup whatever the plan holds
AfterPlanAlways(planned) == [planned EXCEPT !.pc = "backup"]

\* apply, once the plan is built: nothing actionable returns the plan at once
AfterPlan(planned) ==
  IF Actionable(planned.plan) = <<>>
  THEN Return(planned, Success(planned.plan, <<>>))
  ELSE [planned EXCEPT !.pc = "backup"]

\* The loop over req.tables and the full-sync loop; then, in the plan handler,
\* the response, and in apply, the filter of the actionable steps.
PlanSchemas(i) ==
  /\ ops[i].pc = "getSchemas"
  /\ LET op == ops[i]
     IN SetOp(i, IF SchemaReadThrows(op) THEN Leave(op, Failure("Not connected"))
                 ELSE Let([op EXCEPT !.plan = PlanOf(op)], LAMBDA planned :
                          IF op.kind = "plan"
                          THEN ReturnUnlocked(planned, Success(planned.plan, <<>>))
                          ELSE AfterPlan(planned)))
  /\ UNCHANGED <<connections, drivers, fsys, pgServer, pgAdvisory, now, faults, migrationLocks, released,
                 submitOrder, startOrder>>

\* an apply that does not look at backup.error
AfterBackupUnchecked(op, backup) ==
  [op EXCEPT !.pc = "exec", !.backup = backup,
             !.bk = IF backup.error # "" THEN "error"
                    ELSE IF backup.backupPath = <<>> THEN "skipped" ELSE "ok"]

\* apply, once createBackupIfRequested has returned `backup`
AfterBackup(op, backup) ==
  IF backup.error # ""
  THEN Return([op EXCEPT !.backup = backup, !.bk = "error"], Failure(backup.error))
  ELSE [op EXCEPT !.pc = "exec", !.backup = backup,
                  !.bk = IF backup.backupPath = <<>> THEN "skipped" ELSE "ok"]

\* createBackupIfRequested raises: apply's catch block returns the failure
BackupRaised(op, msg) == Return([op EXCEPT !.bk = "raised"], Failure(msg))

\* createBackupIfRequested up to `await ensureDir(backupsDir)`; ioOk: whether
\* the mkdir succeeds
ApplyBackupBegin(i) ==
  /\ ops[i].pc = "backup"
  /\ \E ioOk \in BOOLEAN :
       LET op == ops[i]
       IN IF ~Registered(op.target)
          THEN SetOp(i, BackupRaised(op, "Connection not found")) /\ NoFault
          ELSE IF ~ioOk
          THEN SetOp(i, BackupRaised(op, "mkdir failed")) /\ Fault
          ELSE /\ SetOp(i, [op EXCEPT !.pc = "backupCopy", !.bkDrv = connections[op.target]])
               /\ NoFault
  /\ UNCHANGED <<connections, drivers, fsys, pgServer, pgAdvisory, now, migrationLocks, released,
                 submitOrder, startOrder>>

\* saveToFile: the file is written when the driver has a database
Flushed(fs, d) ==
  IF drivers[d].open THEN WriteFile(fs, drivers[d].path, drivers[d].db) ELSE fs

\* The rest of createBackupIfRequested, and apply's check of backup.error.
\* io: whether the write of the database file and the copy succeed; dumpOk:
\* pg_dump exits with 0.  Every backup is taken in a later second than the
\* one before it.
ApplyBackupCopy(i) ==
  /\ ops[i].pc = "backupCopy"
  /\ \E io \in {"ok", "flush fails", "copy fails"}, dumpOk \in BOOLEAN :
       LET op == ops[i]
           d == op.bkDrv
           src == drivers[d].path
           flushed == Flushed(fsys, d)
           dest == BackupFile(drivers[d].kind, op.target, now + 1)
       IN IF ~Requested(op.options)
          THEN /\ SetOp(i, AfterBackup(op, NoBackup))
               /\ NoFault
               /\ UNCHANGED <<fsys, now>>
          ELSE IF drivers[d].kind = "sqlite"
          THEN IF io = "flush fails"
               THEN /\ SetOp(i, BackupRaised(op, "write failed"))
                    /\ Fault
                    /\ UNCHANGED <<fsys, now>>
               ELSE IF ~FileExists(flushed, src)
               THEN /\ SetOp(i, AfterBackup(op, [NoBackup EXCEPT !.error =
                                   "SQLite database file does not exist on disk yet"]))
                    /\ NoFault
                    /\ fsys' = flushed
                    /\ UNCHANGED now
               ELSE IF io = "copy fails"
               THEN /\ SetOp(i, BackupRaised(op, "copy failed"))
                    /\ Fault
                    /\ fsys' = flushed
                    /\ now' = now + 1
               ELSE /\ SetOp(i, AfterBackup(op, [NoBackup EXCEPT !.backupPath = dest]))
                    /\ NoFault
                    /\ fsys' = WriteFile(flushed, dest, FileDb(flushed, src))
                    /\ now' = now + 1
          ELSE IF ~dumpOk
               THEN /\ SetOp(i, AfterBackup(op, [NoBackup EXCEPT !.error =
                                   "Postgres backup failed"]))
                    /\ Fault
                    /\ UNCHANGED <<fsys, now>>
               ELSE /\ SetOp(i, AfterBackup(op, [NoBackup EXCEPT !.backupPath = dest]))
                    /\ NoFault
                    /\ fsys' = WriteFile(fsys, dest, pgServer)
                    /\ now' = now + 1
  /\ UNCHANGED <<connections, drivers, pgServer, pgAdvisory, migrationLocks, released,
                 submitOrder, startOrder>>

\* the statements apply hands to executeTransaction
Statements(op) == Flatten(Actionable(op.plan))

TxOutcome(r) ==
  IF r.ok THEN "committed" ELSE IF r.failed # 0 THEN "rolledback" ELSE "failed"

\* Line 747 on: getSQLDriver, the statements, and for a SQLite target the
\* whole of executeTransaction, which never awaits.  For a Postgres target
\* the advisory lock query is sent.
ApplyExec(i) ==
  /\ ops[i].pc = "exec"
  /\ LET op == ops[i]
         d == connections[op.target]
     IN IF ~Registered(op.target)
        THEN /\ SetOp(i, Return(op, Failure("Connection not found")))
             /\ NoFault
             /\ UNCHANGED <<drivers, fsys>>
        ELSE IF drivers[d].kind = "postgres"
        THEN /\ SetOp(i, [op EXCEPT !.pc = "pgLock", !.exDrv = d])
             /\ NoFault
             /\ UNCHANGED <<drivers, fsys>>
        ELSE IF ~drivers[d].open
        THEN /\ SetOp(i, Return([op EXCEPT !.exDrv = d], Failure("Not connected")))
             /\ NoFault
             /\ UNCHANGED <<drivers, fsys>>
        ELSE \E failAt \in 0..Len(Statements(op)), saveFails \in BOOLEAN :
               LET r == sqliteExecuteTransaction(drivers[d].db, Statements(op),
                                                 failAt, saveFails)
                   ran == [op EXCEPT !.exDrv = d, !.tx = TxOutcome(r), !.failed = r.failed]
               IN /\ ~(failAt # 0 /\ saveFails)
                  /\ IF failAt # 0 \/ saveFails THEN Fault ELSE NoFault
                  /\ drivers' = [drivers EXCEPT ![d].db = r.db]
                  /\ fsys' = IF r.saved THEN WriteFile(fsys, drivers[d].path, r.db) ELSE fsys
                  /\ SetOp(i, Return(ran, IF r.ok
                                          THEN Success(finalResults(op.plan),
                                                       op.backup.backupPath)
                                          ELSE Failure("transaction failed")))
  /\ UNCHANGED <<connections, pgServer, pgAdvisory, now, migrationLocks, released,
                 submitOrder, startOrder>>

\* the server grants the advisory lock to the session of driver instance d
Granted(d) == pgAdvisory \in {0, d}

\* SELECT pg_advisory_lock(314159265) returns: the server grants the lock
\* when no other session holds it, and the query waits until then; queryOk:
\* whether the query reaches the server.  A query that raises is ignored.
ApplyPgLock(i) ==
  /\ ops[i].pc = "pgLock"
  /\ \E queryOk \in BOOLEAN :
       LET d == ops[i].exDrv
       IN IF ~drivers[d].open
          THEN queryOk /\ NoFault /\ UNCHANGED pgAdvisory
          ELSE IF ~queryOk
          THEN Fault /\ UNCHANGED pgAdvisory
          ELSE /\ Granted(d)
               /\ pgAdvisory' = d
               /\ NoFault
  /\ SetOp(i, [ops[i] EXCEPT !.pc = "pgTx"])
  /\ UNCHANGED <<connections, drivers, fsys, pgServer, now, migrationLocks, released,
                 submitOrder, startOrder>>

\* the two SET statements apply puts before the plan's statements
PgStatements(op) == <<SetStmt, SetStmt>> \o Statements(op)

\* PostgresDriver.executeTransaction; beginOk: whether BEGIN is accepted
ApplyPgTx(i) ==
  /\ ops[i].pc = "pgTx"
  /\ LET op == ops[i]
     IN IF ~drivers[op.exDrv].open
        THEN /\ SetOp(i, [op EXCEPT !.pc = "pgUnlock", !.result = Failure("Not connected")])
             /\ NoFault
             /\ UNCHANGED pgServer
        ELSE \E failAt \in 0..Len(PgStatements(op)), beginOk \in BOOLEAN :
               IF ~beginOk
               THEN /\ failAt = 0
                    /\ Fault
                    /\ SetOp(i, [op EXCEPT !.pc = "pgUnlock", !.tx = "failed",
                                           !.result = Failure("transaction failed")])
                    /\ UNCHANGED pgServer
               ELSE LET r == postgresExecuteTransaction(pgServer, PgStatements(op), failAt)
                    IN /\ IF failAt # 0 THEN Fault ELSE NoFault
                       /\ pgServer' = r.db
                       /\ SetOp(i, [op EXCEPT !.pc = "pgUnlock", !.tx = TxOutcome(r),
                                      !.failed = r.failed,
                                      !.result = IF r.ok
                                                 THEN Success(finalResults(op.plan),
                                                              op.backup.backupPath)
                                                 ELSE Failure("transaction failed")])
  /\ UNCHANGED <<connections, drivers, fsys, pgAdvisory, now, migrationLocks, released,
                 submitOrder, startOrder>>

\* a finally block whose failed pg_advisory_unlock query becomes the result
\* of apply
ApplyPgUnlockRaises(i) ==
  /\ ops[i].pc = "pgUnlock"
  /\ \E queryOk \in BOOLEAN :
       LET d == ops[i].exDrv
       IN IF ~drivers[d].open
          THEN /\ queryOk /\ NoFault /\ UNCHANGED pgAdvisory
               /\ SetOp(i, [ops[i] EXCEPT !.pc = "finally", !.result = Failure("Not connected")])
          ELSE IF ~queryOk
          THEN /\ Fault /\ UNCHANGED pgAdvisory
               /\ SetOp(i, [ops[i] EXCEPT !.pc = "finally", !.result = Failure("query failed")])
          ELSE /\ pgAdvisory' = IF pgAdvisory = d THEN 0 ELSE pgAdvisory
               /\ NoFault
               /\ SetOp(i, [ops[i] EXCEPT !.pc = "finally"])
  /\ UNCHANGED <<connections, drivers, fsys, pgServer, now, migrationLocks, released,
                 submitOrder, startOrder>>

\* the finally block's pg_advisory_unlock query: the server releases the lock
\* when the session holds it; queryOk: whether the query reaches the server.
\* A query that raises is ignored.
ApplyPgUnlock(i) ==
  /\ ops[i].pc = "pgUnlock"
  /\ \E queryOk \in BOOLEAN :
       LET d == ops[i].exDrv
       IN IF ~drivers[d].open
          THEN queryOk /\ NoFault /\ UNCHANGED pgAdvisory
          ELSE IF ~queryOk
          THEN Fault /\ UNCHANGED pgAdvisory
          ELSE /\ pgAdvisory' = IF pgAdvisory = d THEN 0 ELSE pgAdvisory
               /\ NoFault
  /\ SetOp(i, [ops[i] EXCEPT !.pc = "finally"])
  /\ UNCHANGED <<connections, drivers, fsys, pgServer, now, migrationLocks, released,
                 submitOrder, startOrder>>

(***************************************************************************)
(* SCHEMA_MIGRATION_PLAN.                                                  *)
(***************************************************************************)
\* a plan handler that queues for the migration lock of the target
PlanSubmitLocked(i, req) ==
  /\ NextToArrive(i)
  /\ Enqueue(i, LockKey(req.target),
             [NoOp EXCEPT !.kind = "plan", !.source = req.source, !.target = req.target,
                          !.tables = req.tables, !.options = req.options])
  /\ UNCHANGED <<connections, drivers, fsys, pgServer, pgAdvisory, now, faults, released,
                 startOrder>>

\* the whole handler up to the builder's first await; it takes no lock
PlanSubmit(i, req) ==
  /\ NextToArrive(i)
  /\ LET op == [NoOp EXCEPT !.kind = "plan", !.source = req.source,
                            !.target = req.target, !.tables = req.tables,
                            !.options = req.options]
     IN SetOp(i, IF req.source = "" \/ req.target = ""
                 THEN ReturnUnlocked(op, Failure("sourceConnectionId and targetConnectionId are required"))
                 ELSE IF req.tables = <<>>
                 THEN ReturnUnlocked(op, Failure("tables must be a non-empty array"))
                 ELSE PlanBegin(op))
  /\ UNCHANGED <<connections, drivers, fsys, pgServer, pgAdvisory, now, faults, migrationLocks, released,
                 submitOrder, startOrder>>

(***************************************************************************)
(* RESTORE_SQLITE_BACKUP.                                                  *)
(***************************************************************************)
\* the check of connectionId, then withMigrationLock up to `await prev`
RestoreSubmit(i, req) ==
  /\ NextToArrive(i)
  /\ LET op == [NoOp EXCEPT !.kind = "restore", !.target = req.target, !.path = req.path]
     IN IF req.target = ""
        THEN /\ SetOp(i, ReturnUnlocked(op, Failure("connectionId is required")))
             /\ UNCHANGED <<migrationLocks, submitOrder>>
        ELSE Enqueue(i, LockKey(req.target), op)
  /\ UNCHANGED <<connections, drivers, fsys, pgServer, pgAdvisory, now, faults, released, startOrder>>

\* `await prev` resumes and fn runs to `await ensureDir(backupsDir)`
RestoreStart(i) ==
  /\ ops[i].kind = "restore"
  /\ ops[i].pc = "waiting"
  /\ PrevResolved(i)
  /\ startOrder' = [startOrder EXCEPT ![LockKey(ops[i].target)] = Append(@, i)]
  /\ SetOp(i, [ops[i] EXCEPT !.pc = "restoreCheck"])
  /\ UNCHANGED <<connections, drivers, fsys, pgServer, pgAdvisory, now, faults, migrationLocks, released,
                 submitOrder>>

\* fs.existsSync(safeBackupPath): a file, or the backups directory itself,
\* which ensureDir has made
BackupPathExists(fs, path) ==
  FileExists(fs, Resolve(<<>>, path)) \/ Resolve(<<>>, path) = BackupsDir

\* connections.get(connectionId) is a SQLiteDriver
IsLiveSqlite(id) == Registered(id) /\ drivers[connections[id]].kind = "sqlite"

\* SQLiteDriver.disconnect: saveToFile, close, db = null
Disconnected(drv, d) == [drv EXCEPT ![d].open = FALSE, ![d].db = {}]

\* The checks of the request, existing.disconnect(), connections.delete, and
\* the copy of the backup to the temporary file is started.  ioOk: ensureDir
\* succeeded; saveOk: the write in disconnect succeeds.
RestoreCheck(i) ==
  /\ ops[i].pc = "restoreCheck"
  /\ \E ioOk \in BOOLEAN, saveOk \in BOOLEAN :
       LET op == ops[i]
           d == connections[op.target]
       IN IF ~ioOk
          THEN /\ SetOp(i, Return(op, Failure("mkdir failed")))
               /\ Fault
               /\ UNCHANGED <<connections, drivers, fsys>>
          ELSE IF ~InsideDir(BackupsDir, op.path)
          THEN /\ SetOp(i, Return(op, Failure("Path is outside backups directory")))
               /\ NoFault
               /\ UNCHANGED <<connections, drivers, fsys>>
          ELSE IF ~BackupPathExists(fsys, op.path)
          THEN /\ SetOp(i, Return(op, Failure("Backup file not found")))
               /\ NoFault
               /\ UNCHANGED <<connections, drivers, fsys>>
          ELSE IF ~IsLiveSqlite(op.target)
          THEN /\ SetOp(i, Return(op, Failure("Target connection is not an active SQLite connection")))
               /\ NoFault
               /\ UNCHANGED <<connections, drivers, fsys>>
          ELSE IF drivers[d].open /\ ~saveOk
          THEN /\ SetOp(i, Return(op, Failure("write failed")))
               /\ Fault
               /\ UNCHANGED <<connections, drivers, fsys>>
          ELSE /\ SetOp(i, [op EXCEPT !.pc = "restoreReplace", !.exDrv = d])
               /\ NoFault
               /\ fsys' = Flushed(fsys, d)
               /\ drivers' = Disconnected(drivers, d)
               /\ connections' = [connections EXCEPT ![op.target] = 0]
  /\ UNCHANGED <<pgServer, pgAdvisory, now, migrationLocks, released, submitOrder, startOrder>>

\* copyFile(safeBackupPath, tmp) and rename(tmp, targetFile); ioOk: both
\* succeed.  A copy of the directory always fails.
RestoreReplace(i) ==
  /\ ops[i].pc = "restoreReplace"
  /\ \E ioOk \in BOOLEAN :
       LET op == ops[i]
           from == Resolve(<<>>, op.path)
       IN IF ~FileExists(fsys, from)
          THEN /\ SetOp(i, Return(op, Failure("copy failed")))
               /\ NoFault
               /\ UNCHANGED fsys
          ELSE IF ~ioOk
          THEN /\ SetOp(i, Return(op, Failure("copy failed")))
               /\ Fault
               /\ UNCHANGED fsys
          ELSE /\ SetOp(i, [op EXCEPT !.pc = "restoreConnect"])
               /\ NoFault
               /\ fsys' = WriteFile(fsys, drivers[op.exDrv].path, FileDb(fsys, from))
  /\ UNCHANGED <<connections, drivers, pgServer, pgAdvisory, now, migrationLocks, released,
                 submitOrder, startOrder>>

\* the instance `new SQLiteDriver(...)` makes
NewDriver ==
  CHOOSE d \in DriverIds :
    drivers[d].kind = "free" /\ \A e \in DriverIds : e < d => drivers[e].kind # "free"

\* a connect that always starts from a new, empty database
ConnectedEmpty(fs, path) == SqliteDriver(path, {})

\* SQLiteDriver.connect: the database is read from the file when there is one
Connected(fs, path) ==
  SqliteDriver(path, IF FileExists(fs, path) THEN FileDb(fs, path) ELSE {})

\* new SQLiteDriver(targetFile), connect, connections.set; initOk: sql.js
\* initialises and the file can be read
RestoreConnect(i) ==
  /\ ops[i].pc = "restoreConnect"
  /\ \E initOk \in BOOLEAN :
       LET op == ops[i]
       IN IF ~initOk
          THEN /\ SetOp(i, Return(op, Failure("Failed to initialize SQL.js")))
               /\ Fault
               /\ UNCHANGED <<connections, drivers>>
          ELSE /\ SetOp(i, Return(op, Success(<<>>, <<>>)))
               /\ NoFault
               /\ drivers' = [drivers EXCEPT ![NewDriver] =
                                Connected(fsys, drivers[op.exDrv].path)]
               /\ connections' = [connections EXCEPT ![op.target] = NewDriver]
  /\ UNCHANGED <<fsys, pgServer, pgAdvisory, now, migrationLocks, released, submitOrder, startOrder>>

(***************************************************************************)
(* The requests, and the specification of the handlers interleaving.       *)
(***************************************************************************)
Opt(fullySync, createBackup) ==
  [fullySync |-> fullySync, createBackup |-> createBackup,
   createSqliteBackup |-> "undefined"]

Req(source, target, tables, options) ==
  [source |-> source, target |-> target, tables |-> tables, options |-> options]

ApplyRequests ==
  {Req("s", "a", <<nT>>, Opt("true", "true")),
   Req("s", "b", <<nT>>, Opt("false", "true")),
   Req("s", "c", <<nT>>, Opt("false", "false"))}

PlanRequests ==
  {Req("s", "a", <<nT>>, Opt("true", "undefined"))}

RestoreRequests ==
  {[target |-> "a", path |-> BackupFile("sqlite", "a", 0)]}

Locked(i) == ops[i].kind \in {"apply", "restore"}

\* invocation i is inside the function it passed to withMigrationLock, or
\* has left it and not yet run the finally block
InFn(i) == Locked(i) /\ ops[i].pc \notin {"idle", "waiting", "done"}

\* j was submitted to a lock before i was submitted to the same lock
Earlier(j, i) ==
  \E k \in LockKeys : \E p, q \in DOMAIN submitOrder[k] :
    p < q /\ submitOrder[k][p] = j /\ submitOrder[k][q] = i

\* a request arrives and its handler runs to its first await
Arrive(i, applyRequests, planRequests, restoreRequests) ==
  \/ \E req \in applyRequests : ApplySubmit(i, req)
  \/ \E req \in planRequests : PlanSubmit(i, req)
  \/ \E req \in restoreRequests : RestoreSubmit(i, req)

\* a handler that has been waiting at an await resumes
Resume(i) ==
  \/ ApplyStart(i)
  \/ PlanTables(i)
  \/ PlanSchemas(i)
  \/ ApplyBackupBegin(i)
  \/ ApplyBackupCopy(i)
  \/ ApplyExec(i)
  \/ ApplyPgLock(i)
  \/ ApplyPgTx(i)
  \/ ApplyPgUnlock(i)
  \/ Finally(i)
  \/ RestoreStart(i)
  \/ RestoreCheck(i)
  \/ RestoreReplace(i)
  \/ RestoreConnect(i)

Next ==
  \E i \in Ops : Arrive(i, ApplyRequests, PlanRequests, RestoreRequests) \/ Resume(i)

Spec == Init /\ [][Next]_vars

\* The event loop resumes every handler whose await has settled, and the
\* I/O a handler waits for completes.
Fairness == \A i \in Ops : WF_vars(Resume(i))

\* the handlers under that scheduling, with the applies on one Postgres
\* target and the restores on one SQLite target
LiveApplyRequests == {Req("s", "b", <<nT>>, Opt("false", "true"))}

LiveNext ==
  \E i \in Ops : Arrive(i, LiveApplyRequests, PlanRequests, RestoreRequests) \/ Resume(i)

LiveSpec == Init /\ [][LiveNext]_vars /\ Fairness

(***************************************************************************)
(* The plan handler alone, over the databases and requests below.          *)
(***************************************************************************)
\* a target where the source's view u is a table, with a view of its own
ViewDb == {Rel(nT, "table", <<Col(cId, tyInt)>>),
           Rel(nU, "table", <<Col(cId, tyInt)>>),
           Rel(nW, "view", <<Col(cId, tyInt)>>)}

\* a table whose name has a character that is no word character
nTd == <<"t", "-">>

\* the source with that table beside t and the view u
DashDb == SrcDb \cup {Rel(nTd, "table", <<Col(cId, tyInt)>>)}

\* identifiers with an embedded double quote, and a table v
nQ == <<"q", "\"">>
cQ == <<"a", "\"", "b">>
nV == <<"v">>

\* the source with a column of v whose name has a double quote, and no
\* declared type for the other
QuoteDb == DashDb \cup {Rel(nV, "table", <<Col(cQ, tyInt), Col(cId, <<>>)>>)}

\* the Postgres database with a table whose name has a double quote
PgQuoteDb == PgDb \cup {Rel(nQ, "table", <<Col(cQ, tyPgInteger)>>)}

PlanInputs ==
  {Req(source, target, tables, Opt(fullySync, "undefined")) :
     source \in {"s", "a", "b", ""}, target \in {"a", "b", "x"},
     tables \in {<<>>, <<nT>>, <<nU>>, <<nW>>, <<nT, nW>>, <<nT, nT>>,
                 <<nTd>>, <<nV>>, <<nQ>>},
     fullySync \in {"true", "false", "undefined"}}

PlanInit ==
  \E sdb \in {SrcDb, QuoteDb, {}}, adb \in {OldDb, ViewDb, {}}, pg \in {PgDb, PgQuoteDb} :
    Setup(sdb, adb, pg)

PlanNext ==
  \/ \E req \in PlanInputs : PlanSubmit(1, req)
  \/ PlanTables(1)
  \/ PlanSchemas(1)

PlanSpec == PlanInit /\ [][PlanNext]_vars

\* C8: the lock is handed on whether the holder's function returned or
\* raised: every operation waiting for the lock of its target eventually
\* starts, and an operation submitted when nothing is queued for its target
\* can start at once.
LockHandOff ==
  /\ \A i \in Ops : (Locked(i) /\ ops[i].pc = "waiting") ~> (ops[i].pc # "waiting")
  /\ [](\A i \in Ops : (Locked(i) /\ ops[i].pc = "waiting" /\ ops[i].prev = 0)
                          => ENABLED (ApplyStart(i) \/ RestoreStart(i)))

\* an operation is inside its body after the one it queued behind has failed
LockHandOffWitness ==
  \E i, j \in Ops :
    /\ Locked(j) /\ ops[j].prev = i /\ InFn(j)
    /\ ops[i].pc = "done" /\ ~ops[i].result.success

(***************************************************************************)
(* Properties of the migration lock.                                       *)
(***************************************************************************)
\* C1: at no time are two locked operations (apply or restore, in any
\* combination) on the same target connection id inside their locked bodies.
MutualExclusion ==
  \A i, j \in Ops :
    (i # j /\ InFn(i) /\ InFn(j)) => ops[i].target # ops[j].target

\* an apply is inside its body while a restore of the same target waits
MutualExclusionWitness ==
  \E i, j \in Ops :
    /\ ops[i].kind = "apply" /\ InFn(i)
    /\ ops[j].kind = "restore" /\ ops[j].pc = "waiting"
    /\ ops[i].target = ops[j].target

\* C2: for each target id the locked bodies start in the order the
\* operations were submitted, and none starts before every operation
\* submitted earlier to the same id has completed.
FifoPerTarget ==
  \A k \in LockKeys :
    /\ IsPrefix(startOrder[k], submitOrder[k])
    /\ \A p \in DOMAIN startOrder[k] :
         p < Len(startOrder[k]) => ops[startOrder[k][p]].pc = "done"

\* three operations on one target have started, one after the other
FifoPerTargetWitness ==
  \E k \in LockKeys :
    /\ Len(startOrder[k]) = MaxOps
    /\ \E p, q \in DOMAIN startOrder[k] :
         ops[startOrder[k][p]].kind = "apply" /\ ops[startOrder[k][q]].kind = "restore"

\* invocation i waits at `await prev`
StartHeldUp(i) ==
  Locked(i) /\ ops[i].pc = "waiting" /\ ~ENABLED (ApplyStart(i) \/ RestoreStart(i))

\* invocation i waits for the server to grant the advisory lock
LockHeldUp(i) ==
  ops[i].pc = "pgLock" /\ drivers[ops[i].exDrv].open /\ ~Granted(ops[i].exDrv)

\* an operation submitted earlier to i's target has not completed
SameTargetUnfinished(i) ==
  \E j \in Ops :
    Locked(j) /\ ops[j].target = ops[i].target /\ Earlier(j, i) /\ ops[j].pc # "done"

Tables == [c \in ConnIds |-> TargetView(c)]

\* a step of an apply that has run no transaction leaves every table
\* structure as it was
NoWriteWithoutTransaction ==
  \A i \in Ops :
    (ops[i].kind = "apply" /\ ops'[i] # ops[i] /\ ops'[i].tx = "none") => Tables' = Tables

\* the requested backup of apply op returned an error or raised
BackupFailed(op) ==
  op.kind = "apply" /\ Requested(op.options) /\ op.bk \in {"error", "raised"}

\* C3: when a requested backup reports an error or raises, apply returns a
\* failure, starts no transaction, and the table structures of the target
\* are left as they were.
BackupFailureStopsApply ==
  /\ [](\A i \in Ops :
          BackupFailed(ops[i]) =>
            /\ ops[i].pc = "finally"
            /\ ~ops[i].result.success
            /\ ops[i].tx = "none")
  /\ [][NoWriteWithoutTransaction]_vars

\* pg_dump has failed for an apply with a backup requested
BackupFailureWitness ==
  \E i \in Ops :
    BackupFailed(ops[i]) /\ ops[i].bk = "error" /\ ops[i].result.error = "Postgres backup failed"

\* C4: when a statement of the transaction fails, under either driver, the
\* whole transaction is rolled back: the step in which the statement fails
\* leaves every table structure and every file as it was, and the call
\* reports one failure.
AllOrNothing ==
  [][\A i \in Ops :
       (ops[i].kind = "apply" /\ ops[i].failed = 0 /\ ops'[i].failed # 0) =>
         /\ Tables' = Tables
         /\ fsys' = fsys
         /\ ops'[i].tx = "rolledback"
         /\ ~ops'[i].result.success
         /\ ops'[i].result.results = <<>>]_vars

\* the second statement of a transaction on the SQLite target has failed,
\* after the first was executed
AllOrNothingWitness ==
  \E i \in Ops :
    /\ ops[i].kind = "apply" /\ ops[i].failed >= 2 /\ ops[i].tx = "rolledback"
    /\ Registered(ops[i].target) /\ drivers[connections[ops[i].target]].kind = "sqlite"

\* every column of a table of old is a column of the table of that name in
\* new, with the same declared type
ColumnsKept(old, new) ==
  \A r \in old, q \in new :
    (r.name = q.name /\ r.type = "table" /\ q.type = "table") =>
      \A k \in DOMAIN r.cols : \E m \in DOMAIN q.cols : q.cols[m] = r.cols[k]

\* C6: column-level changes are additive only: whatever an apply does, every
\* table that is there before and after a step of it keeps every column it
\* had, with the declared type it had.
AdditiveOnly ==
  [][\A i \in Ops :
       (ops[i].kind = "apply" /\ ops'[i] # ops[i]) =>
         \A c \in ConnIds : ColumnsKept(TargetView(c), TargetView(c)')]_vars

\* an apply has committed on a target whose table t had a column of another
\* type than the source's and a column the source has not: both are still
\* there, beside the added column
AdditiveOnlyWitness ==
  \E i \in Ops :
    /\ ops[i].kind = "apply" /\ ops[i].tx = "committed" /\ ops[i].target = "a"
    /\ ops[i].plan[1].warnings # <<>>
    /\ \E r \in TargetView("a") :
         /\ r.name = nT
         /\ {Col(cId, tyBigint), Col(cX, tyText)} \subseteq Range(r.cols)
         /\ \E k \in DOMAIN r.cols : r.cols[k].name = cNm

\* C9: plan building is read-only and lock-free: a step of a plan call
\* leaves the table structures, the files, the connection registry and the
\* migration-lock map as they were, runs no transaction, and is never a
\* wait for another operation.
PlanReadOnly ==
  [][\A i \in Ops :
       (ops'[i] # ops[i] /\ ops'[i].kind = "plan") =>
         /\ UNCHANGED <<connections, drivers, fsys, pgServer, pgAdvisory,
                        migrationLocks, released>>
         /\ ops'[i].tx = "none"
         /\ ops'[i].pc \in {"getTables", "getSchemas", "done"}]_vars

\* a plan call for a target has returned its plan while an apply submitted
\* earlier for that target is inside its body
PlanReadOnlyWitness ==
  \E i, j \in Ops :
    /\ j < i /\ ops[j].kind = "apply" /\ InFn(j)
    /\ ops[i].kind = "plan" /\ ops[i].pc = "done" /\ ops[i].result.success
    /\ ops[i].target = ops[j].target

\* the plan of apply op holds no actionable step
NothingActionable(op) ==
  op.kind = "apply" /\ op.plan # <<>> /\ Actionable(op.plan) = <<>>

\* a step of an apply that has run neither the backup nor a transaction
\* leaves every table structure and every file as it was
NoWriteBeforeBackup ==
  \A i \in Ops :
    (ops[i].kind = "apply" /\ ops'[i] # ops[i]
     /\ ops'[i].bk = "none" /\ ops'[i].tx = "none") => (Tables' = Tables /\ fsys' = fsys)

\* C10: an apply whose plan holds no actionable step returns success with
\* the plan as built, makes no backup even when one is requested, starts no
\* transaction and leaves the target as it was.
NothingToApply ==
  /\ [](\A i \in Ops :
          NothingActionable(ops[i]) =>
            /\ ops[i].pc = "finally"
            /\ ops[i].result = Success(ops[i].plan, <<>>)
            /\ ops[i].bk = "none"
            /\ ops[i].tx = "none")
  /\ [][NoWriteBeforeBackup]_vars

\* an apply with a backup requested has found nothing actionable
NothingToApplyWitness ==
  \E i \in Ops :
    /\ NothingActionable(ops[i]) /\ Requested(ops[i].options)
    /\ ops[i].pc = "finally" /\ ops[i].result.success

\* the number of steps of plan that are the drop of table t
DropCount(plan, t) == Cardinality({k \in DOMAIN plan : plan[k].sql = <<DropStmt(t)>>})

\* t is a table of the target and no relation of the source
DropExpected(op, t) ==
  /\ op.options.fullySync = "true"
  /\ \E r \in TargetView(op.target) : r.name = t /\ r.type = "table"
  /\ ~\E r \in TargetView(op.source) : r.name = t

PlanNames(op) ==
  {r.name : r \in TargetView(op.target) \cup TargetView(op.source)} \cup Range(op.tables)

\* C5: a plan holds a DROP TABLE step for t exactly when fullySync is set,
\* the target lists t with kind table and the source's table list has no t;
\* then it holds exactly one, whatever the tables argument is, and a DROP
\* statement occurs in no other step.
DropsExact ==
  \A i \in Ops :
    (ops[i].kind = "plan" /\ ops[i].pc = "done" /\ ops[i].result.success) =>
      LET plan == ops[i].result.results IN
      /\ \A t \in PlanNames(ops[i]) :
           DropCount(plan, t) = IF DropExpected(ops[i], t) THEN 1 ELSE 0
      /\ \A k \in DOMAIN plan : \A m \in DOMAIN plan[k].sql :
           plan[k].sql[m].op = "DROP" => plan[k].sql = <<DropStmt(plan[k].table)>>

\* a full-sync plan for the target with the table w of its own drops w once,
\* with w among the requested tables
DropsExactWitness ==
  \E i \in Ops :
    /\ ops[i].kind = "plan" /\ ops[i].pc = "done" /\ ops[i].result.success
    /\ ops[i].tables = <<nT, nW>> /\ ops[i].target = "a"
    /\ DropCount(ops[i].result.results, nW) = 1

(***************************************************************************)
(* Requests repeated one after the other: each request arrives when the    *)
(* call before it has returned, and names the source, target, tables and   *)
(* options of the first.  The first is an apply; a later one is an apply   *)
(* or a plan.                                                              *)
(***************************************************************************)
RepeatRequests ==
  {Req("s", "a", <<nW, nT>>, Opt("true", "false")),
   Req("s", "a", <<nU, nT>>, Opt("false", "true")),
   Req("s", "a", <<nTd>>, Opt("false", "false")),
   Req("s", "b", <<nT>>, Opt("undefined", "true"))}

RepeatInit == \E adb \in {OldDb, ViewDb, {}} : Setup(DashDb, adb, PgDb)

\* op holds the request req
SameRequest(op, req) ==
  /\ op.source = req.source /\ op.target = req.target
  /\ op.tables = req.tables /\ op.options = req.options

RepeatArrive(i) ==
  /\ \A j \in Ops : j < i => ops[j].pc = "done"
  /\ \E req \in RepeatRequests :
       /\ i > 1 => SameRequest(ops[1], req)
       /\ \/ ApplySubmit(i, req)
          \/ (i > 1 /\ PlanSubmit(i, req))

RepeatNext ==
  \E i \in Ops :
    \/ RepeatArrive(i)
    \/ ApplyStart(i)
    \/ PlanTables(i)
    \/ PlanSchemas(i)
    \/ ApplyBackupBegin(i)
    \/ ApplyBackupCopy(i)
    \/ ApplyExec(i)
    \/ ApplyPgLock(i)
    \/ ApplyPgTx(i)
    \/ ApplyPgUnlock(i)
    \/ Finally(i)

RepeatSpec == RepeatInit /\ [][RepeatNext]_vars

\* invocation i repeats the request of an apply that has returned success
FollowsApply(i) ==
  \E j \in Ops :
    /\ j < i /\ ops[j].kind = "apply" /\ ops[j].pc = "done" /\ ops[j].result.success
    /\ SameRequest(ops[j], ops[i])

\* C11: apply is idempotent: a plan or apply that repeats the request of an
\* apply that succeeded finds no actionable step in its plan, and no step of
\* it changes a table structure.
ApplyIdempotent ==
  /\ [](\A i \in Ops :
          (FollowsApply(i) /\ ops[i].plan # <<>>) => Actionable(ops[i].plan) = <<>>)
  /\ [][\A i \in Ops :
          (FollowsApply(i) /\ ops'[i] # ops[i]) => Tables' = Tables]_vars

\* the repeated request has found nothing to do for the table t
ApplyIdempotentWitness ==
  \E i \in Ops :
    /\ FollowsApply(i) /\ ops[i].tables = <<nT>> /\ ops[i].plan # <<>>
    /\ Actionable(ops[i].plan) = <<>>

\* C12: in every plan a plan call or an apply builds or returns, a step with
\* success = FALSE carries no statement, and none of the statements an apply
\* hands to its transaction is a statement of a failed step.
FailedStepsCarryNothing ==
  \A i \in Ops :
    /\ \A k \in DOMAIN ops[i].plan : ~ops[i].plan[k].success => ops[i].plan[k].sql = NoSql
    /\ \A k \in DOMAIN ops[i].result.results :
         ~ops[i].result.results[k].success => ops[i].result.results[k].sql = NoSql
    /\ ops[i].pc \in {"exec", "pgLock", "pgTx"} =>
         \A m \in DOMAIN Statements(ops[i]) :
           \A k \in DOMAIN ops[i].plan :
             ~ops[i].plan[k].success => Statements(ops[i])[m] \notin Range(ops[i].plan[k].sql)

\* an apply whose plan holds a failed step for w and an ADD COLUMN step for t
\* has committed its transaction
FailedStepsWitness ==
  \E i \in Ops :
    /\ ops[i].kind = "apply" /\ ops[i].tx = "committed" /\ ops[i].tables = <<nW, nT>>
    /\ ~ops[i].plan[1].success /\ ops[i].plan[1].table = nW
    /\ IsActionable(ops[i].plan[2])
    /\ ~ops[i].result.results[1].success

\* the call of invocation op has returned a plan, which the model still holds
ReturnedPlan(op) ==
  /\ op.result.success
  /\ (op.kind = "plan" /\ op.pc = "done") \/ (op.kind = "apply" /\ op.pc = "finally")

\* r is a synthetic drop step
IsDropStep(r) == r.success /\ r.sql = <<DropStmt(r.table)>>

\* C13: a returned plan holds one step per entry of the tables argument, in
\* request order and none of them a drop, and after these only drop steps.
PlanShape ==
  \A i \in Ops :
    ReturnedPlan(ops[i]) =>
      LET plan == ops[i].result.results
          tables == ops[i].tables
      IN /\ Len(plan) >= Len(tables)
         /\ \A k \in DOMAIN plan :
              IF k <= Len(tables)
              THEN /\ plan[k].table = tables[k]
                   /\ \A m \in DOMAIN plan[k].sql : plan[k].sql[m].op # "DROP"
              ELSE IsDropStep(plan[k])

\* a full-sync plan for t and w: the step for t, the failed step for w, which
\* the source has not, and then the drop of the target's table w
PlanShapeWitness ==
  \E i \in Ops :
    /\ ReturnedPlan(ops[i]) /\ ops[i].tables = <<nT, nW>>
    /\ Len(ops[i].result.results) = 3
    /\ IsActionable(ops[i].result.results[1])
    /\ ~ops[i].result.results[2].success
    /\ IsDropStep(ops[i].result.results[3])

\* the restore of invocation op has returned success (and its finally block
\* has not yet run)
RestoreSucceeded(op) == op.kind = "restore" /\ op.pc = "finally" /\ op.result.success

\* C14: when a restore returns success, the registry maps the target id to a
\* connected driver instance made by that restore, and the tables a
\* listTables call on the target id returns are those of the backup file.
RestoreVisible ==
  /\ [](\A i \in Ops :
          RestoreSucceeded(ops[i]) =>
            /\ IsLiveSqlite(ops[i].target)
            /\ drivers[connections[ops[i].target]].open
            /\ getTables(TargetView(ops[i].target))
                 = getTables(FileDb(fsys, Resolve(<<>>, ops[i].path))))
  /\ [][\A i \in Ops :
          (~RestoreSucceeded(ops[i]) /\ RestoreSucceeded(ops'[i])) =>
            /\ connections[ops[i].target] = 0
            /\ drivers[connections'[ops[i].target]].kind = "free"]_vars

\* a restore has succeeded on a target that an apply had changed before: the
\* target lists the backup's one table, and no longer the tables it had
RestoreVisibleWitness ==
  \E i, j \in Ops :
    /\ RestoreSucceeded(ops[i]) /\ ops[i].target = "a"
    /\ j < i /\ ops[j].kind = "apply" /\ ops[j].target = "a" /\ ops[j].result.success
    /\ getTables(TargetView("a")) = getTables(BackupDb)
    /\ getTables(BackupDb) # getTables(OldDb)

(***************************************************************************)
(* The restore handler alone: restores of good and bad requests,           *)
(* interleaving.                                                           *)
(***************************************************************************)
\* a path that leaves the backups directory and names the live file of a
TraversalPath == BackupsDir \o <<DotDot, DotDot>> \o PathOf("a")

RestoreInputs ==
  {[target |-> target, path |-> path] :
     target \in {"a", "b", "x"},
     path \in {BackupFile("sqlite", "a", 0), BackupFile("sqlite", "a", 5),
               TraversalPath, BackupsDir}}

RestoreNext ==
  \E i \in Ops :
    \/ \E req \in RestoreInputs : RestoreSubmit(i, req)
    \/ RestoreStart(i)
    \/ RestoreCheck(i)
    \/ RestoreReplace(i)
    \/ RestoreConnect(i)
    \/ Finally(i)

RestoreSpec == Init /\ [][RestoreNext]_vars

\* the path resolves to a place outside the backups directory
ResolvesOutside(path) == ~IsPrefix(BackupsDir, Resolve(<<>>, path))

\* what the restore of invocation op must reject: the path leaves the backups
\* directory, or nothing exists at the path, or the target id maps to no
\* SQLite driver
InvalidRestore(op) ==
  \/ ResolvesOutside(op.path)
  \/ ~BackupPathExists(fsys, op.path)
  \/ ~IsLiveSqlite(op.target)

ValidationRequests ==
  {Req("s", "a", <<nT>>, Opt("false", "true")),
   Req("", "a", <<nT>>, Opt("false", "false")),
   Req("s", "a", <<>>, Opt("false", "false")),
   Req("s", "", <<nT>>, Opt("false", "false"))}

ValidationNext ==
  \E i \in Ops :
    \/ \E req \in ValidationRequests : ApplySubmit(i, req)
    \/ ApplyStart(i)
    \/ PlanTables(i)
    \/ PlanSchemas(i)
    \/ ApplyBackupBegin(i)
    \/ ApplyBackupCopy(i)
    \/ ApplyExec(i)
    \/ Finally(i)

ValidationSpec == Init /\ [][ValidationNext]_vars

\* the apply request of invocation op lacks the source id, the target id or
\* the tables
InvalidApply(op) ==
  op.kind = "apply" /\ (op.source = "" \/ op.target = "" \/ op.tables = <<>>)

\* C16: validation precedes locking: an apply request without source id,
\* target id or tables is rejected in the call that submits it; it is never
\* queued for the migration lock of a target and never waits there.
ValidationBeforeLock ==
  \A i \in Ops :
    InvalidApply(ops[i]) =>
      /\ ops[i].pc = "done" /\ ~ops[i].result.success
      /\ \A k \in LockKeys : i \notin Range(submitOrder[k]) /\ migrationLocks[k] # i

\* an apply request without source id waits for the lock of target a while
\* an apply submitted before it is inside its body
ValidationWaits ==
  \E i, j \in Ops :
    /\ InvalidApply(ops[i]) /\ ops[i].source = "" /\ ops[i].pc = "waiting"
    /\ ~PrevResolved(i)
    /\ ops[j].kind = "apply" /\ InFn(j) /\ ops[j].target = ops[i].target
    /\ ops[j].pc = "exec"

\* the source of invocation op lists t with kind view
SourceView(op, t) == \E r \in TargetView(op.source) : r.name = t /\ r.type = "view"

\* C17: only tables are synchronised: the step for a requested name that the
\* source lists as a view carries no CREATE TABLE and no ADD COLUMN statement.
OnlyTablesSynced ==
  \A i \in Ops : \A k \in DOMAIN ops[i].plan :
    (k <= Len(ops[i].tables) /\ SourceView(ops[i], ops[i].plan[k].table)) =>
      \A m \in DOMAIN ops[i].plan[k].sql : ops[i].plan[k].sql[m].op \notin {"CREATE", "ADD"}

\* an apply has committed the CREATE TABLE of its step for the source's view
\* u, and the target now has a table u
ViewBecomesTable ==
  \E i \in Ops :
    /\ ops[i].kind = "apply" /\ ops[i].tx = "committed" /\ ops[i].tables = <<nU, nT>>
    /\ SourceView(ops[i], nU)
    /\ ops[i].plan[1].sql # <<>> /\ ops[i].plan[1].sql[1].op = "CREATE"
    /\ \E r \in TargetView(ops[i].target) : r.name = nU /\ r.type = "table"

\* What the database reads after the opening quote of a quoted identifier:
\* a doubled quote is one quote of the name, a single one ends it.
RECURSIVE ReadQuoted(_)
ReadQuoted(s) ==
  IF s = <<>> THEN [name |-> <<>>, rest |-> <<>>, closed |-> FALSE]
  ELSE IF Head(s) # "\"" THEN [ReadQuoted(Tail(s)) EXCEPT !.name = <<Head(s)>> \o @]
  ELSE IF Len(s) >= 2 /\ s[2] = "\""
  THEN [ReadQuoted(Tail(Tail(s))) EXCEPT !.name = <<"\"">> \o @]
  ELSE [name |-> <<>>, rest |-> Tail(s), closed |-> TRUE]

\* text is one quoted identifier, and the database reads it as the name n
ReadsAs(text, n) ==
  /\ text # <<>> /\ Head(text) = "\""
  /\ ReadQuoted(Tail(text)) = [name |-> n, rest |-> <<>>, closed |-> TRUE]

\* the relation named t in the source of invocation op
SourceRel(op, t) == CHOOSE r \in TargetView(op.source) : r.name = t

\* the source of op lists t and the target of op does not
ToCreate(op, t) ==
  /\ \E r \in TargetView(op.source) : r.name = t
  /\ ~\E r \in TargetView(op.target) : r.name = t

\* the columns of source relation r as a CREATE TABLE for the dialect declares them
CreateCols(r, targetType) ==
  [j \in DOMAIN r.cols |->
     Col(r.cols[j].name,
         mapColumnTypeToTarget(IF r.cols[j].type = <<>> THEN S_TEXT ELSE r.cols[j].type,
                               targetType))]

TargetKind(op) == drivers[connections[op.target]].kind

\* C18: for a requested table that the source lists and the target does not,
\* the step is successful and its statement is one CREATE TABLE IF NOT EXISTS
\* of that table with exactly the columns of the source table, in source
\* order, each type translated by the type mapper for the target dialect;
\* every identifier, as quoteIdent writes it, reads back as the name.
CreateStepExact ==
  \A i \in Ops :
    (ops[i].kind = "plan" /\ ReturnedPlan(ops[i])) =>
      \A k \in DOMAIN ops[i].tables :
        ToCreate(ops[i], ops[i].tables[k]) =>
          LET step == ops[i].result.results[k]
              rel == SourceRel(ops[i], ops[i].tables[k])
          IN /\ step.success
             /\ step.sql = <<CreateStmt(rel.name, CreateCols(rel, TargetKind(ops[i])))>>
             /\ ReadsAs(quoteIdent(rel.name), rel.name)
             /\ \A j \in DOMAIN rel.cols :
                  ReadsAs(quoteIdent(rel.cols[j].name), rel.cols[j].name)

\* the plan for the table t- of the SQLite source, which the target has not,
\* holds a CREATE TABLE step for it
CreateStepWitness ==
  \E i \in Ops :
    /\ ops[i].kind = "plan" /\ ReturnedPlan(ops[i]) /\ ops[i].tables = <<nTd>>
    /\ ToCreate(ops[i], nTd) /\ ops[i].source = "s"
    /\ ops[i].result.results[1].message = "Will create table"

\* the relation named t in the target of invocation op
TargetRel(op, t) == CHOOSE r \in TargetView(op.target) : r.name = t

\* the source and the target of op both list t
OnBothSides(op, t) ==
  /\ \E r \in TargetView(op.source) : r.name = t
  /\ \E r \in TargetView(op.target) : r.name = t

\* the columns of src that have no column of that name in tgt, in the order of src
RECURSIVE MissingCols(_, _)
MissingCols(src, tgt) ==
  IF src = <<>> THEN <<>>
  ELSE (IF \E j \in DOMAIN tgt : tgt[j].name = Head(src).name THEN <<>> ELSE <<Head(src)>>)
       \o MissingCols(Tail(src), tgt)

\* one ADD COLUMN per column of cols, in order, with the type mapper's type
AddColumns(t, cols, targetType) ==
  [j \in DOMAIN cols |->
     AddStmt(t, Col(cols[j].name,
                    mapColumnTypeToTarget(IF cols[j].type = <<>> THEN S_TEXT ELSE cols[j].type,
                                          targetType)))]

\* the step of plan for the requested table t is as the claim has it
AlterStepAsClaimed(op, step, t) ==
  LET missing == MissingCols(SourceRel(op, t).cols, TargetRel(op, t).cols)
  IN /\ step.success
     /\ step.sql = IF missing = <<>> THEN Sentinel
                   ELSE AddColumns(t, missing, TargetKind(op))
     /\ step.sql = Sentinel => ~IsActionable(step)

\* C19: when the builder has built the plan, the step of every requested
\* table that source and target both list holds one ADD COLUMN per source
\* column whose name the target table has not, in source order, and no
\* other; it is the sentinel exactly when no source column is missing; and
\* the statements of an apply never hold a sentinel.
AlterStepExact ==
  [][\A i \in Ops :
       (ops[i].pc = "getSchemas" /\ ops'[i].plan # <<>>) =>
         /\ \A k \in DOMAIN ops[i].tables :
              OnBothSides(ops[i], ops[i].tables[k]) =>
                AlterStepAsClaimed(ops[i], ops'[i].plan[k], ops[i].tables[k])
         /\ \A m \in DOMAIN Statements(ops'[i]) : Statements(ops'[i])[m].op # "NOOP"]_vars

\* an apply has committed the ADD COLUMN step for t of a plan whose step for
\* u is the sentinel
AlterStepWitness ==
  \E i \in Ops :
    /\ ops[i].kind = "apply" /\ ops[i].tx = "committed" /\ ops[i].tables = <<nU, nT>>
    /\ ops[i].plan[1].sql = Sentinel
    /\ ops[i].plan[2].message = "Will add missing columns"
    /\ ops[i].result.results[1].message = "Table schema is compatible"

\* the source of op does not list t
NotInSource(op, t) == ~\E r \in TargetView(op.source) : r.name = t

\* step r of a plan carries statements to execute
CarriesSql(r) == r.success /\ r.sql # NoSql /\ r.sql # Sentinel

\* every ADD COLUMN of the plan of op is in place on the target
AddsInPlace(op) ==
  \A k \in DOMAIN op.plan : \A m \in DOMAIN op.plan[k].sql :
    op.plan[k].sql[m].op = "ADD" =>
      \E r \in TargetView(op.target) :
        r.name = op.plan[k].table /\ HasCol(r.cols, op.plan[k].sql[m].cols[1].name)

\* C20: a requested table that the source does not list gives a failed step
\* without statement, the other requested tables get their steps all the
\* same, and the plan is returned as a success; an apply that returns
\* success has executed the statements of the other tables' steps.
PerTableFailures ==
  \A i \in Ops :
    /\ ops[i].plan # <<>> =>
         \A k \in DOMAIN ops[i].tables :
           IF NotInSource(ops[i], ops[i].tables[k])
           THEN ops[i].plan[k] = Step(ops[i].tables[k], FALSE, NoSql,
                                      "Source table not found; skipping.", <<>>)
           ELSE ops[i].plan[k].success /\ ops[i].plan[k].table = ops[i].tables[k]
    /\ (ops[i].kind = "plan" /\ ops[i].pc = "done") =>
         ops[i].result.success /\ ops[i].result.results = ops[i].plan
    /\ (ops[i].kind = "apply" /\ ops[i].pc = "finally" /\ ops[i].result.success
        /\ \E k \in DOMAIN ops[i].plan : CarriesSql(ops[i].plan[k])) =>
         ops[i].tx = "committed" /\ AddsInPlace(ops[i])

\* an apply for w, which the source has not, and t has returned success:
\* the step for w failed and the column nm of t is added on the target
PerTableWitness ==
  \E i \in Ops :
    /\ ops[i].kind = "apply" /\ ops[i].pc = "finally" /\ ops[i].result.success
    /\ ops[i].tables = <<nW, nT>> /\ NotInSource(ops[i], nW)
    /\ ~ops[i].plan[1].success /\ CarriesSql(ops[i].plan[2])
    /\ \E r \in TargetView(ops[i].target) : r.name = nT /\ HasCol(r.cols, cNm)

(***************************************************************************)
(* Applies through the two connections b and c to the one Postgres         *)
(* database, for different tables, interleaving.                           *)
(***************************************************************************)
SharedDbRequests ==
  {Req("s", "b", <<nT>>, Opt("false", "true")),
   Req("s", "c", <<nU>>, Opt("false", "false"))}

SharedDbNext ==
  \E i \in Ops :
    \/ \E req \in SharedDbRequests : ApplySubmit(i, req)
    \/ ApplyStart(i)
    \/ PlanTables(i)
    \/ PlanSchemas(i)
    \/ ApplyBackupBegin(i)
    \/ ApplyBackupCopy(i)
    \/ ApplyExec(i)
    \/ ApplyPgLock(i)
    \/ ApplyPgTx(i)
    \/ ApplyPgUnlock(i)
    \/ Finally(i)

SharedDbSpec == Init /\ [][SharedDbNext]_vars

\* invocation op is an apply with a backup requested
BackupRequested(op) == op.kind = "apply" /\ Requested(op.options)

\* C21: backup precedes mutation: an apply with a backup requested completes
\* the backup after its plan is built and before its transaction; when the
\* transaction commits, the backup file holds the table structures the
\* target had just before the transaction, and the returned backupPath names
\* that file.
BackupBeforeMutation ==
  /\ [][\A i \in Ops :
          /\ (BackupRequested(ops[i]) /\ ops[i].bk = "none" /\ ops'[i].bk = "ok") =>
               (ops[i].plan # <<>> /\ Actionable(ops[i].plan) # <<>> /\ ops'[i].tx = "none")
          /\ (BackupRequested(ops[i]) /\ ops[i].tx = "none" /\ ops'[i].tx = "committed") =>
               /\ ops[i].bk = "ok"
               /\ FileExists(fsys, ops[i].backup.backupPath)
               /\ FileDb(fsys, ops[i].backup.backupPath) = TargetView(ops[i].target)
               /\ ops'[i].result.backupPath = ops[i].backup.backupPath]_vars
  /\ [](\A i \in Ops :
          (BackupRequested(ops[i]) /\ ops[i].pc = "finally" /\ ops[i].result.success
           /\ Actionable(ops[i].plan) # <<>>) =>
            /\ ops[i].bk = "ok" /\ ops[i].tx = "committed"
            /\ ops[i].result.backupPath = ops[i].backup.backupPath
            /\ FileExists(fsys, ops[i].result.backupPath))

\* an apply on the SQLite target with a backup requested has committed, and
\* its backup holds the table w that the transaction dropped
BackupBeforeMutationWitness ==
  \E i \in Ops :
    /\ BackupRequested(ops[i]) /\ ops[i].pc = "finally" /\ ops[i].result.success
    /\ ops[i].tx = "committed" /\ ops[i].target = "a"
    /\ \E r \in FileDb(fsys, ops[i].result.backupPath) : r.name = nW
    /\ ~\E r \in TargetView("a") : r.name = nW

\* the apply on b has taken its backup and is about to run its transaction,
\* and the database is no longer the one the backup holds
BackupStale ==
  \E i \in Ops :
    /\ BackupRequested(ops[i]) /\ ops[i].target = "b" /\ ops[i].pc = "pgTx"
    /\ ops[i].bk = "ok"
    /\ FileDb(fsys, ops[i].backup.backupPath) # pgServer

(***************************************************************************)
(* Applies on the Postgres target b while a database session that is not   *)
(* one of the registry's drivers may take advisory lock 314159265 and keep *)
(* it for any time.  The event loop resumes every handler whose await has  *)
(* settled; nothing obliges the environment to make a step fail.           *)
(***************************************************************************)
\* the session of another client of the database
OtherSession == -1

\* the server grants the lock in the order of the requests: the other
\* session does not get it while an apply is waiting for it
OtherSessionLocks ==
  /\ pgAdvisory = 0
  /\ \A i \in Ops : ops[i].pc # "pgLock"
  /\ pgAdvisory' = OtherSession
  /\ UNCHANGED <<connections, drivers, fsys, pgServer, now, faults, migrationLocks, released,
                 ops, submitOrder, startOrder>>

OtherSessionUnlocks ==
  /\ pgAdvisory = OtherSession
  /\ pgAdvisory' = 0
  /\ UNCHANGED <<connections, drivers, fsys, pgServer, now, faults, migrationLocks, released,
                 ops, submitOrder, startOrder>>

\* an apply that has been waiting at an await resumes
ApplyResume(i) ==
  \/ ApplyStart(i)
  \/ PlanTables(i)
  \/ PlanSchemas(i)
  \/ ApplyBackupBegin(i)
  \/ ApplyBackupCopy(i)
  \/ ApplyExec(i)
  \/ ApplyPgLock(i)
  \/ ApplyPgTx(i)
  \/ ApplyPgUnlock(i)
  \/ Finally(i)

SessionNext ==
  \/ OtherSessionLocks
  \/ OtherSessionUnlocks
  \/ \E i \in Ops : (\E req \in LiveApplyRequests : ApplySubmit(i, req)) \/ ApplyResume(i)

SessionFairness == \A i \in Ops : WF_vars(ApplyResume(i) /\ faults' = faults)

SessionSpec == Init /\ [][SessionNext]_vars /\ SessionFairness

\* C22: apply fails fast instead of hanging: every apply on the Postgres
\* target eventually returns and releases the migration lock, whatever time
\* another session holds the advisory lock, and every apply waiting for the
\* migration lock eventually starts.
ApplyReturns ==
  \A i \in Ops :
    /\ (ops[i].kind = "apply" /\ ops[i].pc # "done") ~> (ops[i].pc = "done")
    /\ (ops[i].kind = "apply" /\ ops[i].pc = "waiting") ~> (ops[i].pc # "waiting")

\* an apply waits for the advisory lock that the other session holds, and a
\* second apply waits behind it for the migration lock
WaitsForOtherSession ==
  \E i, j \in Ops :
    /\ ops[i].kind = "apply" /\ ops[i].pc = "pgLock" /\ pgAdvisory = OtherSession
    /\ ops[j].kind = "apply" /\ ops[j].pc = "waiting" /\ ops[j].prev = i


(***************************************************************************)
(* The plan a successful apply returns.                                    *)
(***************************************************************************)
\* the apply of invocation op has run its transaction to the commit and holds
\* the value it returns
AppliedPlan(op) ==
  op.kind = "apply" /\ op.pc = "finally" /\ op.result.success /\ op.tx = "committed"

\* step r is a no-op: its statement is the literal '-- No changes needed'
IsNoOpStep(r) == r.sql = Sentinel

\* C23: a successful apply returns the steps of the plan it built, in the same
\* order, each with the message 'Applied' unless the step was a no-op, which
\* keeps its message.
StepsApplied ==
  \A i \in Ops :
    AppliedPlan(ops[i]) =>
      LET plan == ops[i].plan
          res == ops[i].result.results
      IN /\ Len(res) = Len(plan)
         /\ \A k \in DOMAIN plan :
              /\ res[k].table = plan[k].table
              /\ res[k].sql = plan[k].sql
              /\ res[k].message = IF IsNoOpStep(plan[k]) THEN plan[k].message ELSE "Applied"

\* a successful apply returns a step that is no no-op and is not marked
\* 'Applied': the step of a table the source lacks
SkippedStepReturned ==
  \E i \in Ops :
    /\ AppliedPlan(ops[i])
    /\ \E k \in DOMAIN ops[i].plan :
         /\ ~ops[i].plan[k].success
         /\ ~IsNoOpStep(ops[i].plan[k])
         /\ ops[i].result.results[k].message # "Applied"

\* what the code does: steps that carry statements are marked, all others
\* (no-ops and failed steps) keep their message
StepsWithSqlApplied ==
  \A i \in Ops :
    AppliedPlan(ops[i]) =>
      LET plan == ops[i].plan
          res == ops[i].result.results
      IN /\ Len(res) = Len(plan)
         /\ \A k \in DOMAIN plan :
              /\ res[k].table = plan[k].table
              /\ res[k].sql = plan[k].sql
              /\ res[k].success = plan[k].success
              /\ res[k].message = IF CarriesSql(plan[k]) THEN "Applied" ELSE plan[k].message


(***************************************************************************)
(* The type mapper, as the plan handler applies it to the declared types   *)
(* of a source column: a plan of table t for a target that lacks it.       *)
(***************************************************************************)
tySmallint == <<"s", "m", "a", "l", "l", "i", "n", "t">>
tyBigintLower == <<"b", "i", "g", "i", "n", "t">>
tyBigintMixed == <<"B", "i", "g", "I", "n", "t">>
tySmallintUpper == <<"S", "M", "A", "L", "L", "I", "N", "T">>
tyInteger == <<"I", "N", "T", "E", "G", "E", "R">>
tyTinyint == <<"T", "I", "N", "Y", "I", "N", "T">>
tyMediumint == <<"m", "e", "d", "i", "u", "m", "i", "n", "t">>
tyInt2 == <<"I", "N", "T", "2">>
tyInt8 == <<"i", "n", "t", "8">>
tyReal == <<"R", "E", "A", "L">>

TypeInputs ==
  {tyInt, tyInteger, tyPgInteger, tyBigint, tyBigintLower, tyBigintMixed, tySmallint,
   tySmallintUpper, tyTinyint, tyMediumint, tyInt2, tyInt8, tyText, tyReal}

\* a source whose table t has one column of the declared type ty
TypeDb(ty) == {Rel(nT, "table", <<Col(cId, ty)>>)}

TypeInit == \E ty \in TypeInputs : Setup(TypeDb(ty), {}, {})

TypeRequests ==
  {Req("s", target, <<nT>>, Opt(fullySync, "undefined")) :
     target \in {"a", "b"}, fullySync \in {"true", "false"}}

TypeNext ==
  \/ \E req \in TypeRequests : PlanSubmit(1, req)
  \/ PlanTables(1)
  \/ PlanSchemas(1)

TypeSpec == TypeInit /\ [][TypeNext]_vars

\* the upper-cased names of the integer types
IntegerFamily ==
  {S_INT, S_INTEGER, S_BIGINT, S_SMALLINT, ToUpperCase(tyTinyint), ToUpperCase(tyMediumint),
   ToUpperCase(tyInt2), ToUpperCase(tyInt8)}

\* the type the mapper is to give for an integer type n for Postgres
WidthKept(n) ==
  IF n = S_BIGINT THEN S_BIGINT ELSE IF n = S_SMALLINT THEN S_SMALLINT ELSE S_INTEGER

\* the plan call of invocation op has returned a CREATE TABLE of t for the
\* Postgres target
PgCreateReturned(op) ==
  /\ op.kind = "plan" /\ ReturnedPlan(op) /\ TargetKind(op) = "postgres"
  /\ ToCreate(op, nT)
  /\ op.result.results[1].sql # NoSql
  /\ op.result.results[1].sql[1].op = "CREATE"

\* C24: for a Postgres target the type mapper keeps the width of an integer
\* type: BIGINT gives BIGINT, SMALLINT gives SMALLINT, every other integer
\* type gives INTEGER, the declared type compared upper-cased and trimmed.
IntegerWidth ==
  \A i \in Ops :
    PgCreateReturned(ops[i]) =>
      LET src == SourceRel(ops[i], nT).cols
          made == ops[i].result.results[1].sql[1].cols
      IN \A j \in DOMAIN src :
           LET n == Trim(ToUpperCase(src[j].type))
           IN n \in IntegerFamily => made[j].type = WidthKept(n)

\* a plan for the Postgres target declares INTEGER for a source column
\* declared BIGINT
BigintNarrowed ==
  \E i \in Ops :
    /\ PgCreateReturned(ops[i])
    /\ Trim(ToUpperCase(SourceRel(ops[i], nT).cols[1].type)) = S_BIGINT
    /\ ops[i].result.results[1].sql[1].cols[1].type = S_INTEGER


(***************************************************************************)
(* The entries of the migration-lock map.                                  *)
(***************************************************************************)
\* invocation i has called withMigrationLock for key and its finally block
\* has not run: it waits for the lock or holds it
InFlight(i, key) ==
  Locked(i) /\ ops[i].pc \notin {"idle", "done"} /\ LockKey(ops[i].target) = key

\* C25: the migration-lock map has an entry for a key exactly while an
\* operation for the key is executing or queued; the entry is removed only by
\* the operation that stored it, in its finally block, and so never while a
\* later operation's entry is in the map; with no operation in flight the map
\* is empty.
LockMapHygiene ==
  /\ [](\A key \in LockKeys :
          (migrationLocks[key] # 0) <=> (\E i \in Ops : InFlight(i, key)))
  /\ [][\A key \in LockKeys :
          (migrationLocks[key] # 0 /\ migrationLocks'[key] = 0) =>
            /\ ops[migrationLocks[key]].pc = "finally"
            /\ ops'[migrationLocks[key]].pc = "done"
            /\ \A j \in Ops : j # migrationLocks[key] => ~InFlight(j, key)]_vars
  /\ []((\A i \in Ops : ~Locked(i) \/ ops[i].pc \in {"idle", "done"})
          => \A key \in LockKeys : migrationLocks[key] = 0)

\* an operation has completed while the operation queued behind it is in
\* flight, and the entry of the later one is in the map
SuccessorEntryKept ==
  \E i, j \in Ops :
    /\ Locked(i) /\ ops[i].pc = "done"
    /\ InFlight(j, LockKey(ops[i].target)) /\ ops[j].prev = i
    /\ migrationLocks[LockKey(ops[i].target)] = j


(***************************************************************************)
(* The plan of an apply and the operations queued before it.               *)
(***************************************************************************)
\* statement st, run now on database db, would change nothing or fail: the
\* table it creates is there, the column it adds is there, or the table it
\* drops or alters is not
Stale(st, db) ==
  CASE st.op = "CREATE" -> \E r \in db : r.name = st.table
    [] st.op = "ADD" -> \/ ~\E r \in db : r.name = st.table
                        \/ \E r \in db : /\ r.name = st.table
                                         /\ \E k \in DOMAIN r.cols :
                                              r.cols[k].name = st.cols[1].name
    [] st.op = "DROP" -> ~\E r \in db : r.name = st.table
    [] OTHER -> FALSE

\* invocation i is an apply that has begun to read its target, or has read it
HasPlanned(i) ==
  ops[i].kind = "apply" /\ ops[i].pc \notin {"idle", "waiting", "done"}

\* C26: an apply reads its target and builds its plan only when every
\* operation queued before it for the same target has finished; the
\* statements it runs on a file-backed target are derived from the target as
\* its predecessor left it (none of them is already in effect), and an apply
\* that follows a successful apply of the same request finds nothing to run.
PlansAfterPredecessor ==
  /\ [](\A i, j \in Ops : (HasPlanned(i) /\ Earlier(j, i)) => ops[j].pc = "done")
  /\ [][\A i \in Ops :
          (ops[i].kind = "apply" /\ ops[i].pc = "exec" /\ ops[i].target = "a"
           /\ ops'[i].tx # "none")
            => \A k \in DOMAIN Statements(ops[i]) :
                 ~Stale(Statements(ops[i])[k], TargetView("a"))]_vars
  /\ [](\A i, j \in Ops :
          (/\ ops[i].kind = "apply" /\ ops[i].pc = "finally" /\ ops[i].result.success
           /\ ops[j].kind = "apply" /\ ops[i].prev = j /\ ops[j].result.success
           /\ ops[i].target = "a"
           /\ SameRequest(ops[j], ops[i]))
            => ops[i].tx = "none" /\ Actionable(ops[i].plan) = <<>>)

\* the second of two identical applies on a, submitted while the first was
\* running, has returned with nothing actionable
SecondFindsNothing ==
  \E i, j \in Ops :
    /\ ops[i].kind = "apply" /\ ops[i].pc = "finally" /\ ops[i].result.success
    /\ ops[j].kind = "apply" /\ ops[i].prev = j /\ ops[j].result.success
    /\ ops[i].target = "a" /\ SameRequest(ops[j], ops[i])
    /\ Len(ops[i].plan) > 0 /\ Actionable(ops[i].plan) = <<>>


(***************************************************************************)
(* The advisory lock around the transaction on a Postgres target.          *)
(***************************************************************************)
\* invocation i is in the Postgres branch of apply
InPgBranch(i) == ops[i].kind = "apply" /\ ops[i].pc \in {"pgLock", "pgTx", "pgUnlock"}

\* C27: on a Postgres target the transaction is run only after the
\* pg_advisory_lock query has been sent and has returned or raised, and apply
\* returns only after the pg_advisory_unlock query has been sent, whether the
\* transaction committed, rolled back or could not begin; the transaction runs
\* whether or not the lock was obtained, and the unlock query, whatever comes
\* of it, leaves the result of apply as the transaction set it.
AdvisoryBracket ==
  /\ [](\A i \in Ops : (ops[i].kind = "apply" /\ ops[i].pc = "pgLock") => ops[i].tx = "none")
  /\ [][\A i \in Ops :
          /\ (ops[i].kind = "apply" /\ ops[i].pc = "pgLock" /\ ops'[i] # ops[i])
               => ops'[i].pc = "pgTx" /\ ops'[i].tx = "none"
          /\ (ops[i].kind = "apply" /\ ops[i].pc = "pgTx" /\ ops'[i] # ops[i])
               => /\ ops'[i].pc = "pgUnlock"
                  /\ ops'[i].result.success <=> (ops'[i].tx = "committed")
          /\ (ops[i].kind = "apply" /\ ops[i].pc = "pgUnlock" /\ ops'[i] # ops[i])
               => /\ ops'[i].pc = "finally"
                  /\ ops'[i].result = ops[i].result
                  /\ ops'[i].tx = ops[i].tx
          /\ (ops[i].kind = "apply" /\ TargetKind(ops[i]) = "postgres"
              /\ ops[i].tx = "none" /\ ops'[i].tx # "none")
               => ops[i].pc = "pgTx"
          /\ (ops'[i].kind = "apply" /\ ops'[i].pc = "pgTx" /\ ops[i].pc # "pgTx")
               => ops[i].pc = "pgLock"
          /\ (InPgBranch(i) /\ ~InPgBranch(i)')
               => ops[i].pc = "pgUnlock"]_vars

\* an apply is past its unlock query with the lock still held by its session
\* (the query failed), and returns the success of its committed transaction
ReleaseFailedResultKept ==
  \E i \in Ops :
    /\ ops[i].kind = "apply" /\ ops[i].pc = "finally"
    /\ ops[i].exDrv # 0 /\ pgAdvisory = ops[i].exDrv
    /\ ops[i].tx = "committed" /\ ops[i].result.success

\* an apply has committed its transaction without the advisory lock
CommittedWithoutLock ==
  \E i \in Ops :
    /\ ops[i].kind = "apply" /\ ops[i].pc = "pgUnlock"
    /\ pgAdvisory # ops[i].exDrv
    /\ ops[i].tx = "committed" /\ ops[i].result.success


(***************************************************************************)
(* The registry entry of the target of a restore.                          *)
(***************************************************************************)
\* the target id of restore i mapped to a connected SQLite driver when the
\* function of the restore began: it does now, the restore being at its
\* first step, or the restore has passed that check and has disconnected the
\* driver itself
BeganConnected(i) ==
  IF ops[i].pc = "restoreCheck"
  THEN IsLiveSqlite(ops[i].target) /\ drivers[connections[ops[i].target]].open
  ELSE ops[i].pc \in {"restoreReplace", "restoreConnect"}

\* the registry maps id to a connected driver
LiveEntry(id) == Registered(id) /\ drivers[connections[id]].open

\* C28: when a restore returns, with success or failure, on a target id that
\* mapped to a connected file-backed driver when the restore began, the
\* registry maps the id to a connected driver.
RestoreKeepsConnection ==
  [][\A i \in Ops :
       (/\ ops[i].kind = "restore" /\ BeganConnected(i)
        /\ ops[i].pc # "finally" /\ ops'[i].pc = "finally")
         => LiveEntry(ops[i].target)']_vars

\* a restore on a has returned a failure and the registry has no entry for a
ConnectionLost ==
  \E i \in Ops :
    /\ ops[i].kind = "restore" /\ ops[i].pc = "finally" /\ ops[i].target = "a"
    /\ ~ops[i].result.success
    /\ ~Registered("a")


(***************************************************************************)
(* SQLiteDriver.executeTransaction that raises.                            *)
(***************************************************************************)
\* C29: when executeTransaction of a SQLite driver raises, at a statement or
\* at the write of the file after COMMIT, the in-memory database of the
\* driver is what it was before the call: an apply that reports failure has
\* left the table structures of its target alone.
FailedTxChangesNothing ==
  [][\A i \in Ops :
       (/\ ops[i].kind = "apply" /\ ops[i].pc = "exec"
        /\ Registered(ops[i].target) /\ TargetKind(ops[i]) = "sqlite"
        /\ ops'[i].pc = "finally" /\ ~ops'[i].result.success)
         => TargetView(ops[i].target)' = TargetView(ops[i].target)]_vars

\* an apply on a has returned a failure, its transaction neither committed
\* nor rolled back, and the driver's database has a column the file lacks
ChangedAndFailed ==
  \E i \in Ops :
    /\ ops[i].kind = "apply" /\ ops[i].pc = "finally" /\ ops[i].target = "a"
    /\ ~ops[i].result.success /\ ops[i].tx = "failed"
    /\ Registered("a")
    /\ TargetView("a") # FileDb(fsys, PathOf("a"))


(***************************************************************************)
(* db:connect and db:disconnect beside an apply.  Neither handler takes    *)
(* the migration lock.  Each is one step here: the registry changes at     *)
(* the end of the handler, and what it does before that is done to a       *)
(* driver no other handler holds (connect) or in one turn (disconnect).    *)
(***************************************************************************)
\* a driver instance can be made
SomeFree == \E d \in DriverIds : drivers[d].kind = "free"

\* db:connect for the SQLite file of id: new SQLiteDriver(filePath),
\* driver.connect(), connections.set(connection.id, driver).  The driver the
\* id mapped to before stays as it is.  A connect that raises changes nothing.
Connect(id) ==
  /\ SomeFree
  /\ drivers' = [drivers EXCEPT ![NewDriver] = Connected(fsys, PathOf(id))]
  /\ connections' = [connections EXCEPT ![id] = NewDriver]
  /\ UNCHANGED <<fsys, pgServer, pgAdvisory, now, faults, migrationLocks, released, ops,
                 submitOrder, startOrder>>

\* db:disconnect: driver.disconnect() and connections.delete(connectionId);
\* saveOk: the write of the file in disconnect succeeds
Disconnect(id) ==
  /\ Registered(id)
  /\ \E saveOk \in BOOLEAN :
       LET d == connections[id]
       IN IF drivers[d].open /\ ~saveOk
          THEN Fault /\ UNCHANGED <<connections, drivers, fsys>>
          ELSE /\ NoFault
               /\ fsys' = Flushed(fsys, d)
               /\ drivers' = Disconnected(drivers, d)
               /\ connections' = [connections EXCEPT ![id] = 0]
  /\ UNCHANGED <<pgServer, pgAdvisory, now, migrationLocks, released, ops, submitOrder,
                 startOrder>>

RegistryRequests == {Req("s", "a", <<nT>>, Opt("false", "true"))}

RegistryNext ==
  \/ Connect("a")
  \/ Disconnect("a")
  \/ \E i \in Ops :
       \/ \E req \in RegistryRequests : ApplySubmit(i, req)
       \/ ApplyStart(i)
       \/ PlanTables(i)
       \/ PlanSchemas(i)
       \/ ApplyBackupBegin(i)
       \/ ApplyBackupCopy(i)
       \/ ApplyExec(i)
       \/ Finally(i)

RegistrySpec == Init /\ [][RegistryNext]_vars

\* invocation i is an apply inside the function it passed to withMigrationLock
ApplyRuns(i) == ops[i].kind = "apply" /\ InFn(i)

\* C30: within one apply the driver the backup is taken through and the
\* driver the transaction is run through are the instance the plan was built
\* on, and while an apply for an id runs the registry entry of the id is
\* neither replaced nor removed.
OneDriverPerApply ==
  [][/\ \A i \in Ops :
          /\ (ops[i].kind = "apply" /\ ops[i].pc = "backup" /\ ops'[i].pc = "backupCopy")
               => ops'[i].bkDrv = ops[i].tgtDrv
          /\ (ops[i].kind = "apply" /\ ops[i].pc = "exec" /\ ops'[i] # ops[i]
              /\ Registered(ops[i].target))
               => connections[ops[i].target] = ops[i].tgtDrv
     /\ \A id \in ConnIds :
          (\E i \in Ops : ApplyRuns(i) /\ ops[i].target = id)
            => connections'[id] = connections[id]]_vars

\* an apply has built its plan on one driver instance and takes its backup
\* through another, which a connect request has put in the registry
BackupOnOtherDriver ==
  \E i \in Ops :
    /\ ops[i].kind = "apply" /\ ops[i].pc = "backupCopy"
    /\ ops[i].tgtDrv # 0 /\ ops[i].bkDrv # 0
    /\ ops[i].bkDrv # ops[i].tgtDrv

\* an apply is about to run its transaction, and the registry maps its target
\* to another instance than the one the plan was built on
TxOnOtherDriver ==
  \E i \in Ops :
    /\ ops[i].kind = "apply" /\ ops[i].pc = "exec"
    /\ Registered(ops[i].target)
    /\ connections[ops[i].target] # ops[i].tgtDrv

====
